---------------------------- MODULE Spec2Model ----------------------------
(***************************************************************************)
(* A model of src/a2l_parser.py: the lexical helpers (tokenize_line,       *)
(* to_int, unquote), the block-tree builder (BlockBuilder.feed_line), the  *)
(* entity decoders (parse_daq_event, parse_memory_segment, parse_compu_*,  *)
(* ...) and the document assembler (A2LParser.parse_text).                 *)
(*                                                                         *)
(* A Python str is modelled as a sequence of one-character strings, so     *)
(* that splitting, stripping, quoting and number parsing are computed      *)
(* character by character as the code computes them.  An Optional value    *)
(* is None (the empty tuple) or Some(x) (the one-element tuple <<x>>).     *)
(* A call that raises is modelled by a result record with ok = FALSE and   *)
(* the exception's class in exc.                                           *)
(***************************************************************************)
EXTENDS Integers, Sequences, FiniteSets, TLC

VARIABLES
    blocks,   \* every A2LBlock created so far; blocks[1] is the root (or the decoder's argument)
    stack,    \* BlockBuilder.stack, as indices into blocks
    hist,     \* history of the run: the lines fed, and where each block and stored line came from
    input,    \* the argument of the call under way, when it is not a block
    pc,       \* position of the running call
    result    \* what the call returned (or raised)

vars == <<blocks, stack, hist, input, pc, result>>

-----------------------------------------------------------------------------
(* Optional values and raised exceptions *)

None == <<>>
Some(x) == <<x>>

\* a value computed once and then named: Bind(e, LAMBDA x : body) is body with
\* x standing for the value of e (a local variable of the code)
Bind(x, F(_)) == F(x)

\* the characters the modelled strings are written in (ASCII only)
LowerLetters == <<"a","b","c","d","e","f","g","h","i","j","k","l","m","n","o","p","q","r","s","t","u","v","w","x","y","z">>
UpperLetters == <<"A","B","C","D","E","F","G","H","I","J","K","L","M","N","O","P","Q","R","S","T","U","V","W","X","Y","Z">>
HexDigits == <<"0","1","2","3","4","5","6","7","8","9","a","b","c","d","e","f">>

\* str.isspace / regex \s on the characters of the model
whitespace == {" ", "\t", "\n", "\r"}

IndexOf(c, seq) == IF \E k \in 1..Len(seq) : seq[k] = c
                   THEN CHOOSE k \in 1..Len(seq) : seq[k] = c
                   ELSE 0

\* str.upper / str.lower, one character
UpperOf == [c \in {LowerLetters[k] : k \in 1..Len(LowerLetters)} |->
               UpperLetters[IndexOf(c, LowerLetters)]]
LowerOf == [c \in {UpperLetters[k] : k \in 1..Len(UpperLetters)} |->
               LowerLetters[IndexOf(c, UpperLetters)]]
upper_char(c) == IF c \in DOMAIN UpperOf THEN UpperOf[c] ELSE c
lower_char(c) == IF c \in DOMAIN LowerOf THEN LowerOf[c] ELSE c

upper(s) == [k \in 1..Len(s) |-> upper_char(s[k])]
lower(s) == [k \in 1..Len(s) |-> lower_char(s[k])]

SeqToSet(s) == {s[k] : k \in 1..Len(s)}

startswith(s, p) == Len(s) >= Len(p) /\ SubSeq(s, 1, Len(p)) = p
endswith(s, p) == Len(s) >= Len(p) /\ SubSeq(s, Len(s) - Len(p) + 1, Len(s)) = p

isalpha_char(c) == c \in DOMAIN UpperOf \/ c \in DOMAIN LowerOf
\* str.isalpha: non-empty and every character a letter
isalpha(s) == Len(s) > 0 /\ \A k \in 1..Len(s) : isalpha_char(s[k])

RECURSIVE lstrip_chars(_, _)
lstrip_chars(s, cs) == IF s # <<>> /\ Head(s) \in cs THEN lstrip_chars(Tail(s), cs) ELSE s

RECURSIVE rstrip_chars(_, _)
rstrip_chars(s, cs) == IF s # <<>> /\ s[Len(s)] \in cs
                       THEN rstrip_chars(SubSeq(s, 1, Len(s) - 1), cs) ELSE s

\* str.strip(), str.rstrip("\n"), str.strip('"')
strip(s) == rstrip_chars(lstrip_chars(s, whitespace), whitespace)
rstrip_nl(s) == rstrip_chars(s, {"\n"})
strip_dq(s) == rstrip_chars(lstrip_chars(s, {"\""}), {"\""})

RECURSIVE Flatten(_)
Flatten(ss) == IF ss = <<>> THEN <<>> ELSE Head(ss) \o Flatten(Tail(ss))

\* " ".join(tokens)
RECURSIVE join(_)
join(toks) == IF toks = <<>> THEN <<>>
              ELSE IF Len(toks) = 1 THEN toks[1]
              ELSE toks[1] \o <<" ">> \o join(Tail(toks))

\* str.split(): naive whitespace splitting
RECURSIVE split_ws(_, _, _)
split_ws(s, cur, out) ==
    IF s = <<>> THEN (IF cur = <<>> THEN out ELSE Append(out, cur))
    ELSE IF Head(s) \in whitespace
         THEN split_ws(Tail(s), <<>>, IF cur = <<>> THEN out ELSE Append(out, cur))
         ELSE split_ws(Tail(s), Append(cur, Head(s)), out)

split(s) == split_ws(s, <<>>, <<>>)

\* the keywords the code compares names and tokens with
kw_MODULE == <<"M","O","D","U","L","E">>
kw == [
    ROOT |-> <<"R","O","O","T">>,
    EVENT |-> <<"E","V","E","N","T">>,
    DAQ |-> <<"D","A","Q">>,
    STIM |-> <<"S","T","I","M">>,
    DAQ_STIM |-> <<"D","A","Q","_","S","T","I","M">>,
    COEFFS |-> <<"C","O","E","F","F","S">>,
    BYTE_ORDER |-> <<"B","Y","T","E","_","O","R","D","E","R">>,
    FORMAT |-> <<"F","O","R","M","A","T">>,
    SYMBOL_LINK |-> <<"S","Y","M","B","O","L","_","L","I","N","K">>,
    ECU_ADDRESS |-> <<"E","C","U","_","A","D","D","R","E","S","S">>,
    ADDRESS |-> <<"A","D","D","R","E","S","S">>,
    REF_MEASUREMENT |-> <<"R","E","F","_","M","E","A","S","U","R","E","M","E","N","T">>,
    LOC_MEASUREMENT |-> <<"L","O","C","_","M","E","A","S","U","R","E","M","E","N","T">>,
    ADDRESS_GRANULARITY |-> <<"A","D","D","R","E","S","S","_","G","R","A","N","U","L","A","R","I","T","Y">>,
    OPTIONAL_CMD |-> <<"O","P","T","I","O","N","A","L","_","C","M","D">>,
    COMMUNICATION_MODE_SUPPORTED |-> <<"C","O","M","M","U","N","I","C","A","T","I","O","N","_","M","O","D","E","_","S","U","P","P","O","R","T","E","D">>,
    MASTER |-> <<"M","A","S","T","E","R">>,
    STATIC |-> <<"S","T","A","T","I","C">>,
    DYNAMIC |-> <<"D","Y","N","A","M","I","C">>,
    IDENTIFICATION_FIELD_TYPE_ |-> <<"I","D","E","N","T","I","F","I","C","A","T","I","O","N","_","F","I","E","L","D","_","T","Y","P","E","_">>,
    GRANULARITY_ODT_ENTRY_SIZE_DAQ |-> <<"G","R","A","N","U","L","A","R","I","T","Y","_","O","D","T","_","E","N","T","R","Y","_","S","I","Z","E","_","D","A","Q">>,
    GRANULARITY_ODT_ENTRY_SIZE_DAQ_ |-> <<"G","R","A","N","U","L","A","R","I","T","Y","_","O","D","T","_","E","N","T","R","Y","_","S","I","Z","E","_","D","A","Q","_">>,
    GRANULARITY_ODT_ENTRY_SIZE_STIM |-> <<"G","R","A","N","U","L","A","R","I","T","Y","_","O","D","T","_","E","N","T","R","Y","_","S","I","Z","E","_","S","T","I","M">>,
    GRANULARITY_ODT_ENTRY_SIZE_STIM_ |-> <<"G","R","A","N","U","L","A","R","I","T","Y","_","O","D","T","_","E","N","T","R","Y","_","S","I","Z","E","_","S","T","I","M","_">>,
    OVERLOAD_INDICATION_EVENT |-> <<"O","V","E","R","L","O","A","D","_","I","N","D","I","C","A","T","I","O","N","_","E","V","E","N","T">>,
    BIT_STIM_SUPPORTED |-> <<"B","I","T","_","S","T","I","M","_","S","U","P","P","O","R","T","E","D">>,
    CAN_FD |-> <<"C","A","N","_","F","D">>,
    CHECKSUM |-> <<"C","H","E","C","K","S","U","M">>,
    PAGE |-> <<"P","A","G","E">>,
    IF_DATA |-> <<"I","F","_","D","A","T","A">>,
    XCPplus |-> <<"X","C","P","p","l","u","s">>,
    SEGMENT |-> <<"S","E","G","M","E","N","T">>,
    INTERN |-> <<"I","N","T","E","R","N">>,
    EXTERN |-> <<"E","X","T","E","R","N">>,
    PROJECT |-> <<"P","R","O","J","E","C","T">>,
    PROTOCOL_LAYER |-> <<"P","R","O","T","O","C","O","L","_","L","A","Y","E","R">>,
    XCP_ON_CAN |-> <<"X","C","P","_","O","N","_","C","A","N">>,
    MOD_PAR |-> <<"M","O","D","_","P","A","R">>,
    AXIS_PTS |-> <<"A","X","I","S","_","P","T","S">>,
    MEASUREMENT |-> <<"M","E","A","S","U","R","E","M","E","N","T">>,
    CHARACTERISTIC |-> <<"C","H","A","R","A","C","T","E","R","I","S","T","I","C">>,
    COMPU_METHOD |-> <<"C","O","M","P","U","_","M","E","T","H","O","D">>,
    COMPU_VTAB |-> <<"C","O","M","P","U","_","V","T","A","B">>,
    MEMORY_SEGMENT |-> <<"M","E","M","O","R","Y","_","S","E","G","M","E","N","T">>,
    RECORD_LAYOUT |-> <<"R","E","C","O","R","D","_","L","A","Y","O","U","T">>,
    GROUP |-> <<"G","R","O","U","P">>,
    FUNCTION |-> <<"F","U","N","C","T","I","O","N">> ]

-----------------------------------------------------------------------------
(* shlex.split(line, posix=True): shlex.read_token with whitespace_split,  *)
(* no commenters; quotes ' and ", escape \, escapedquotes ".               *)

quotes == {"'", "\""}
escape == {"\\"}
escapedquotes == {"\""}

Tokens(ts) == [ok |-> TRUE, exc |-> "", toks |-> ts]
Raise(e) == [ok |-> FALSE, exc |-> e, toks |-> <<>>]

\* the number of characters of s from position i on that come before the first
\* one in stop
span(s, i, stop) ==
    LET hits == {k \in i..Len(s) : s[k] \in stop}
    IN IF hits = {} THEN Len(s) - i + 1
       ELSE (CHOOSE k \in hits : \A j \in hits : k <= j) - i

\* read_token, called until the input is used up.  Characters that leave the
\* state as it is (whitespace between tokens, plain characters inside a word or
\* inside quotes) are taken as one run.
RECURSIVE read_token(_, _, _, _, _, _, _)
read_token(s, i, state, escapedstate, token, quoted, out) ==
    IF i > Len(s)
    THEN \* end of input
         IF state \in quotes THEN Raise("ValueError")          \* No closing quotation
         ELSE IF state \in escape THEN Raise("ValueError")     \* No escaped character
         ELSE Tokens(IF token # <<>> \/ quoted THEN Append(out, token) ELSE out)
    ELSE LET nextchar == s[i] IN
         IF state = " " THEN
              IF nextchar \in whitespace
              THEN read_token(s, i + span(s, i, {c \in SeqToSet(s) : c \notin whitespace}),
                              " ", " ", <<>>, FALSE, out)
              ELSE IF nextchar \in escape
              THEN read_token(s, i + 1, nextchar, "a", token, quoted, out)
              ELSE IF nextchar \in quotes
              THEN read_token(s, i + 1, nextchar, escapedstate, token, quoted, out)
              ELSE read_token(s, i + 1, "a", escapedstate, <<nextchar>>, quoted, out)
         ELSE IF state \in quotes THEN
              IF nextchar = state
              THEN read_token(s, i + 1, "a", escapedstate, token, TRUE, out)
              ELSE IF nextchar \in escape /\ state \in escapedquotes
              THEN read_token(s, i + 1, nextchar, state, token, TRUE, out)
              ELSE LET n == span(s, i, {state} \cup (IF state \in escapedquotes THEN escape ELSE {}))
                   IN read_token(s, i + n, state, escapedstate,
                                 token \o SubSeq(s, i, i + n - 1), TRUE, out)
         ELSE IF state \in escape THEN
              LET kept == IF escapedstate \in quotes /\ nextchar # state
                             /\ nextchar # escapedstate
                          THEN Append(token, state) ELSE token
              IN read_token(s, i + 1, escapedstate, escapedstate, Append(kept, nextchar), quoted, out)
         ELSE \* state = "a"
              IF nextchar \in whitespace
              THEN IF token # <<>> \/ quoted
                   THEN read_token(s, i + 1, " ", " ", <<>>, FALSE, Append(out, token))
                   ELSE read_token(s, i + 1, " ", escapedstate, token, quoted, out)
              ELSE IF nextchar \in quotes
              THEN read_token(s, i + 1, nextchar, escapedstate, token, quoted, out)
              ELSE IF nextchar \in escape
              THEN read_token(s, i + 1, nextchar, "a", token, quoted, out)
              ELSE LET n == span(s, i, whitespace \cup quotes \cup escape)
                   IN read_token(s, i + n, "a", escapedstate,
                                 token \o SubSeq(s, i, i + n - 1), quoted, out)

shlex_split(s) == read_token(s, 1, " ", " ", <<>>, FALSE, <<>>)

\* tokenize_line: no try/except around shlex.split, so its ValueError propagates
tokenize_line(line) == shlex_split(line)

\* unquote: strip one layer of matching quote characters
unquote(s) ==
    IF Len(s) >= 2 /\ ((s[1] = "\"" /\ s[Len(s)] = "\"") \/ (s[1] = "'" /\ s[Len(s)] = "'"))
    THEN SubSeq(s, 2, Len(s) - 1)
    ELSE s

-----------------------------------------------------------------------------
(* to_int: int(token, 16) when the lowered token starts with 0x, else      *)
(* int(token); None when int() raises.  int() strips surrounding           *)
(* whitespace, takes one optional sign, and allows single underscores      *)
(* between digits (and right after a base prefix).                         *)

DigitOf == [c \in {HexDigits[k] : k \in 1..Len(HexDigits)} |-> IndexOf(c, HexDigits) - 1]

digit_val(c, base) ==
    Bind(lower_char(c), LAMBDA d :
        IF d \in DOMAIN DigitOf /\ DigitOf[d] < base THEN DigitOf[d] ELSE -1)

\* prev is "none" (nothing read), "prefix" (just after 0x), "digit" or "us" (underscore)
RECURSIVE int_digits(_, _, _, _)

int_digits(s, base, acc, prev) ==
    IF s = <<>> THEN (IF prev = "digit" THEN Some(acc) ELSE None)
    ELSE IF Head(s) = "_"
         THEN (IF prev \in {"digit", "prefix"} THEN int_digits(Tail(s), base, acc, "us") ELSE None)
         ELSE Bind(digit_val(Head(s), base), LAMBDA d :
                  IF d >= 0 THEN int_digits(Tail(s), base, acc * base + d, "digit") ELSE None)

py_int(token, base) ==
    Bind(strip(token), LAMBDA t :
    Bind(IF t # <<>> /\ Head(t) \in {"+", "-"} THEN Tail(t) ELSE t, LAMBDA u :
    Bind(base = 16 /\ startswith(lower(u), <<"0","x">>), LAMBDA pre :
    Bind(IF pre THEN int_digits(SubSeq(u, 3, Len(u)), base, 0, "prefix")
         ELSE int_digits(u, base, 0, "none"), LAMBDA v :
        IF v = None THEN None
        ELSE IF t # <<>> /\ Head(t) = "-" THEN Some(0 - v[1]) ELSE v))))

to_int(token) ==
    py_int(token, IF startswith(lower(token), <<"0","x">>) THEN 16 ELSE 10)

-----------------------------------------------------------------------------
(* to_float: float(token), None when it raises.  A float is kept as the    *)
(* decimal number m * 10^e with m not divisible by 10 (kind "float"), or   *)
(* as an infinity or nan; an int stored where a float may be stored is     *)
(* kept as kind "int".                                                     *)

Number(kind, m, e) == [kind |-> kind, m |-> m, e |-> e]
IntNumber(v) == Number("int", v, 0)

RECURSIVE normal_float(_, _)
normal_float(m, e) ==
    IF m = 0 THEN Number("float", 0, 0)
    ELSE IF m % 10 = 0 THEN normal_float(m \div 10, e + 1)
    ELSE Number("float", m, e)

\* digit ("_"? digit)*: the digits without the underscores, or None
digit_part(s) ==
    IF int_digits(s, 10, 0, "none") = None THEN None
    ELSE Some(SelectSeq(s, LAMBDA c : c # "_"))

digits_value(ds) == int_digits(ds, 10, 0, "none")[1]

\* position of the first character of s that is in cs (0 when there is none)
first_of(s, cs) == IF \E k \in 1..Len(s) : s[k] \in cs
                   THEN CHOOSE k \in 1..Len(s) : s[k] \in cs /\ \A j \in 1..(k - 1) : s[j] \notin cs
                   ELSE 0

\* [sign] digits: the exponent after e or E
signed_digits(s) ==
    Bind(digit_part(IF s # <<>> /\ Head(s) \in {"+", "-"} THEN Tail(s) ELSE s), LAMBDA d :
        IF d = None THEN None
        ELSE IF s # <<>> /\ Head(s) = "-" THEN Some(0 - digits_value(d[1]))
        ELSE Some(digits_value(d[1])))

\* the unsigned decimal literal u: digits [. [digits]] [exponent] or . digits [exponent]
decimal_literal(u, sign) ==
    Bind(first_of(u, {"e", "E"}), LAMBDA ep :
    Bind(IF ep = 0 THEN u ELSE SubSeq(u, 1, ep - 1), LAMBDA mant :
    Bind(IF ep = 0 THEN Some(0) ELSE signed_digits(SubSeq(u, ep + 1, Len(u))), LAMBDA expo :
    Bind(first_of(mant, {"."}), LAMBDA dp :
    Bind(IF dp = 0 THEN mant ELSE SubSeq(mant, 1, dp - 1), LAMBDA ip :
    Bind(IF dp = 0 THEN <<>> ELSE SubSeq(mant, dp + 1, Len(mant)), LAMBDA fp :
    Bind(IF ip = <<>> THEN Some(<<>>) ELSE digit_part(ip), LAMBDA ipd :
    Bind(IF fp = <<>> THEN Some(<<>>) ELSE digit_part(fp), LAMBDA fpd :
        IF expo = None \/ ipd = None \/ fpd = None \/ (ip = <<>> /\ fp = <<>>) THEN None
        ELSE Some(normal_float(sign * digits_value(ipd[1] \o fpd[1]),
                               expo[1] - Len(fpd[1])))))))))))

py_float(token) ==
    Bind(strip(token), LAMBDA t :
    Bind(t # <<>> /\ Head(t) = "-", LAMBDA neg :
    Bind(IF t # <<>> /\ Head(t) \in {"+", "-"} THEN Tail(t) ELSE t, LAMBDA u :
    Bind(lower(u), LAMBDA low :
        IF low \in {<<"i","n","f">>, <<"i","n","f","i","n","i","t","y">>}
        THEN Some(Number(IF neg THEN "-inf" ELSE "inf", 0, 0))
        ELSE IF low = <<"n","a","n">> THEN Some(Number("nan", 0, 0))
        ELSE decimal_literal(u, IF neg THEN -1 ELSE 1)))))

to_float(token) == py_float(token)

\* to_float(x) if to_float(x) is not None else to_int(x)
float_or_int(x) ==
    Bind(to_float(x), LAMBDA as_float :
        IF as_float # None THEN as_float
        ELSE Bind(to_int(x), LAMBDA as_int :
                 IF as_int # None THEN Some(IntNumber(as_int[1])) ELSE None))

-----------------------------------------------------------------------------
(* A2LBlock and its query surface.  A block is a record; children holds    *)
(* the indices (into the sequence bs of all blocks) of its child blocks.   *)

A2LBlock(name, args) == [name |-> name, args |-> args, lines |-> <<>>, children |-> <<>>]

RECURSIVE SelectIds(_, _, _)
SelectIds(bs, ids, name) ==
    IF ids = <<>> THEN <<>>
    ELSE IF upper(bs[Head(ids)].name) = upper(name)
         THEN <<Head(ids)>> \o SelectIds(bs, Tail(ids), name)
         ELSE SelectIds(bs, Tail(ids), name)

\* (a variant of get_children that returns the matching children last first)
get_children_reversed(bs, b, name) ==
    LET kids == SelectIds(bs, bs[b].children, name)
    IN [k \in 1..Len(kids) |-> kids[Len(kids) + 1 - k]]

\* A2LBlock.get_children: the children whose name matches, case-insensitively, in order
get_children(bs, b, name) == SelectIds(bs, bs[b].children, name)

\* A2LBlock.get_first_child: None when there is no such child
get_first_child(bs, b, name) ==
    Bind(get_children(bs, b, name), LAMBDA kids :
        IF kids # <<>> THEN Some(kids[1]) ELSE None)

-----------------------------------------------------------------------------
(* BlockBuilder *)

begin_marker == <<"/","b","e","g","i","n">>
end_marker == <<"/","e","n","d">>

\* BlockBuilder.__init__
builder_init == [blocks |-> <<A2LBlock(kw.ROOT, <<>>)>>, stack |-> <<1>>]

\* the length of the longest prefix of s without whitespace
RECURSIVE nonspace_run(_)
nonspace_run(s) == IF s = <<>> \/ Head(s) \in whitespace THEN 0 ELSE 1 + nonspace_run(Tail(s))

\* re.match(r"/begin\s+(\S+)\s*(.*)$", s, flags=re.I) for a stripped s holding no
\* line break: None, or the groups (name, rest of the line)
begin_match(s) ==
    LET rest == SubSeq(s, Len(begin_marker) + 1, Len(s))
        word == lstrip_chars(rest, whitespace)
        n == nonspace_run(word)
    IN IF startswith(lower(s), begin_marker) /\ rest # <<>> /\ rest[1] \in whitespace /\ n > 0
       THEN Some([name |-> SubSeq(word, 1, n),
                  rest |-> lstrip_chars(SubSeq(word, n + 1, Len(word)), whitespace)])
       ELSE None

\* the argument tokens of a begin line: shlex.split, and str.split when it raises
begin_args(args_str) ==
    IF args_str = <<>> THEN <<>>
    ELSE IF shlex_split(args_str).ok THEN shlex_split(args_str).toks
    ELSE split(args_str)

\* (mutant of append_line: the line is stored in the root, whatever the stack)
append_line_root(bs, st, line) ==
    [bs EXCEPT ![st[1]].lines = Append(@, rstrip_nl(line))]

\* (mutant of append_line: the line is put first, not last)
append_line_first(bs, st, line) ==
    [bs EXCEPT ![st[Len(st)]].lines = <<rstrip_nl(line)>> \o @]

\* self.stack[-1].lines.append(line.rstrip("\n"))
append_line(bs, st, line) ==
    [bs EXCEPT ![st[Len(st)]].lines = Append(@, rstrip_nl(line))]

\* (mutant of open_block: the new block becomes the first child of the top)
open_block_first_child(bs, st, m) ==
    [blocks |-> [Append(bs, A2LBlock(m.name, begin_args(strip(m.rest))))
                     EXCEPT ![st[Len(st)]].children = <<Len(bs) + 1>> \o @],
     stack |-> Append(st, Len(bs) + 1)]

\* (mutant of close_block: an end line closes every open block)
close_block_to_root(st) == IF Len(st) > 1 THEN <<st[1]>> ELSE st

\* (mutant of open_block: the new block is pushed but not made a child of the top)
open_block_detached(bs, st, m) ==
    [blocks |-> Append(bs, A2LBlock(m.name, begin_args(strip(m.rest)))),
     stack |-> Append(st, Len(bs) + 1)]

\* the branch of a begin line that matches: a new block, child of the top, pushed
open_block(bs, st, m) ==
    LET id == Len(bs) + 1
        blk == A2LBlock(m.name, begin_args(strip(m.rest)))
    IN [blocks |-> [Append(bs, blk) EXCEPT ![st[Len(st)]].children = Append(@, id)],
        stack |-> Append(st, id)]

\* (mutant of close_block: the guard is off by one)
close_block_off_by_one(st) == IF Len(st) > 2 THEN SubSeq(st, 1, Len(st) - 1) ELSE st

\* the branch of an end line: pop unless only the root remains
close_block(st) == IF Len(st) > 1 THEN SubSeq(st, 1, Len(st) - 1) ELSE st

\* BlockBuilder.feed_line
feed_line(bs, st, line) ==
    LET s == strip(line)
        m == begin_match(s)
    IN IF s = <<>> THEN [blocks |-> bs, stack |-> st]
       ELSE IF startswith(lower(s), begin_marker)
            THEN IF m = None
                 THEN [blocks |-> append_line(bs, st, line), stack |-> st]
                 ELSE open_block(bs, st, m[1])
       ELSE IF startswith(lower(s), end_marker)
            THEN [blocks |-> bs, stack |-> close_block(st)]
       ELSE [blocks |-> append_line(bs, st, line), stack |-> st]

-----------------------------------------------------------------------------
(* The builder fed line by line (specification Spec).  hist records, for   *)
(* the properties only, which input line each block and each stored line   *)
(* came from; the builder never reads it.                                  *)

Last(s) == s[Len(s)]

\* the most lines one run feeds
MaxFeed == 5

\* the lines a run of the builder draws from:
\*   /begin A            /begin B x "y z"      /begin C "u   (unbalanced quote)
\*   /begin              (no keyword)          /end          <space>/END A<newline>
\*   c1                  <space><space>c2<space><newline>    <space> (blank)
BuilderLines == {
    <<"/","b","e","g","i","n"," ","A">>, <<"/","b","e","g","i","n"," ","B"," ","x"," ","\"","y"," ","z","\"">>, <<"/","b","e","g","i","n"," ","C"," ","\"","u">>, <<"/","b","e","g","i","n">>,
    <<"/","e","n","d">>, <<" ","/","E","N","D"," ","A","\n">>, <<"c","1">>, <<" "," ","c","2"," ","\n">>, <<" ">> }

\* line classes, by the text of the line alone
IsBlankLine(line) == strip(line) = <<>>
IsEndLine(line) == startswith(lower(strip(line)), end_marker)
IsOpenLine(line) == begin_match(strip(line)) # None
IsContentLine(line) == ~IsBlankLine(line) /\ ~IsEndLine(line) /\ ~IsOpenLine(line)

hist_init == [fed |-> <<>>,             \* the lines fed, in order
              content |-> <<>>,         \* per line fed: whether it is a content line
              before |-> <<>>,          \* per line fed: the stack it was fed to
              beginPos |-> <<0>>,       \* per block: input position of its begin line
              parent |-> <<0>>,         \* per block: top of the stack when it was opened
              linePos |-> << <<>> >>,   \* per block: input position of each stored line
              pops |-> 0,               \* end lines that popped a block
              rootEnds |-> 0]           \* end lines fed while only the root was open

\* hist after feeding line: what changed is read off the builder's states
hist_next(h, bs, st, nb, ns, line) ==
    LET pos == Len(h.fed) + 1
        opened == Len(nb) > Len(bs)
        grown(b) == Len(nb[b].lines) > Len(bs[b].lines)
    IN [fed |-> Append(h.fed, line),
        content |-> Append(h.content, IsContentLine(line)),
        before |-> Append(h.before, st),
        beginPos |-> IF opened THEN Append(h.beginPos, pos) ELSE h.beginPos,
        parent |-> IF opened THEN Append(h.parent, st[Len(st)]) ELSE h.parent,
        linePos |-> [b \in 1..Len(nb) |->
                        IF b > Len(bs) THEN <<>>
                        ELSE IF grown(b) THEN Append(h.linePos[b], pos) ELSE h.linePos[b]],
        pops |-> IF Len(ns) < Len(st) THEN h.pops + 1 ELSE h.pops,
        rootEnds |-> IF IsEndLine(line) /\ ~IsBlankLine(line) /\ Len(st) = 1
                     THEN h.rootEnds + 1 ELSE h.rootEnds]

Feed(line) ==
    \E r \in {feed_line(blocks, stack, line)} :
        /\ blocks' = r.blocks
        /\ stack' = r.stack
        /\ hist' = hist_next(hist, blocks, stack, r.blocks, r.stack, line)

Init ==
    /\ blocks = builder_init.blocks
    /\ stack = builder_init.stack
    /\ hist = hist_init
    /\ input = None
    /\ pc = "feeding"
    /\ result = None

\* one call of feed_line
FeedLine ==
    /\ pc = "feeding"
    /\ Len(hist.fed) < MaxFeed
    /\ \E line \in BuilderLines : Feed(line)
    /\ UNCHANGED <<input, pc, result>>

Next == FeedLine

Spec == Init /\ [][Next]_vars

-----------------------------------------------------------------------------
(* Properties of the builder (specification Spec) *)

\* the step fed an end line
FedEndLine == Len(hist'.fed) = Len(hist.fed) + 1 /\ IsEndLine(Last(hist'.fed))

\* C4: an end line fed while only the root is on the stack changes nothing (stack,
\* children, content lines); in every other state an end line removes exactly the
\* top of the stack and changes nothing else.  feed_line has no error outcome.
C4_EndLineFrame ==
    [][FedEndLine =>
          /\ blocks' = blocks
          /\ stack' = IF Len(stack) = 1 THEN stack ELSE SubSeq(stack, 1, Len(stack) - 1)]_vars

\* an end line has been fed at the root, and another one has popped a block
C4_Witness == hist.rootEnds > 0 /\ hist.pops > 0

\* the blocks reachable from the blocks of seen through children links
RECURSIVE Reach(_, _)
Reach(bs, seen) ==
    LET more == seen \cup UNION {SeqToSet(bs[b].children) : b \in seen}
    IN IF more = seen THEN seen ELSE Reach(bs, more)

\* block b holds exactly the input lines hist says were stored in it, right-trimmed
KeepsItsLines(b) ==
    /\ Len(blocks[b].lines) = Len(hist.linePos[b])
    /\ \A k \in 1..Len(blocks[b].lines) :
          blocks[b].lines[k] = rstrip_nl(hist.fed[hist.linePos[b][k]])

\* C5: after any sequence of feed_line calls every block ever created is reachable
\* from the root through children links and keeps every content line appended to
\* it; a block that was opened (closed or not) is a child of the block that was on
\* top of the stack when it was opened.
C5_AllAttached ==
    /\ Len(blocks) = Len(hist.beginPos)
    /\ Reach(blocks, {1}) = 1..Len(hist.beginPos)
    /\ \A b \in 2..Len(blocks) : b \in SeqToSet(blocks[hist.parent[b]].children)
    /\ \A b \in 1..Len(blocks) : KeepsItsLines(b)

\* input ended with two nested blocks still open, the inner one holding content
C5_Witness ==
    /\ Len(stack) > 2
    /\ blocks[Last(stack)].lines # <<>>
    /\ hist.pops = 0

StrictlyIncreasing(s) == \A i, j \in 1..Len(s) : i < j => s[i] < s[j]

RECURSIVE SumLen(_)
SumLen(ss) == IF ss = <<>> THEN 0 ELSE Len(Head(ss)) + SumLen(Tail(ss))

\* the input positions stored in some block
StoredPositions == UNION {SeqToSet(hist.linePos[b]) : b \in 1..Len(blocks)}

\* C6: in every block, children is ordered by the input position of each child's
\* begin line and the content lines by the input position of each stored line;
\* every content line of the input is stored exactly once (none duplicated,
\* dropped or reordered).
C6_SourceOrder ==
    /\ \A b \in 1..Len(blocks) :
          /\ StrictlyIncreasing([k \in 1..Len(blocks[b].children) |->
                                    hist.beginPos[blocks[b].children[k]]])
          /\ StrictlyIncreasing(hist.linePos[b])
          /\ KeepsItsLines(b)
    /\ StoredPositions = {p \in 1..Len(hist.fed) : hist.content[p]}
    /\ SumLen(hist.linePos) = Cardinality(StoredPositions)

\* some block has two children and some block holds two different content lines
C6_Witness ==
    /\ \E b \in 1..Len(blocks) : Len(blocks[b].children) >= 2
    /\ \E b \in 1..Len(blocks) :
          Len(blocks[b].lines) >= 2 /\ blocks[b].lines[1] # blocks[b].lines[2]

\* the input positions of the lines of a class
OpenPositions == {p \in 1..Len(hist.fed) : IsOpenLine(hist.fed[p])}
EndPositions == {p \in 1..Len(hist.fed) : ~IsBlankLine(hist.fed[p]) /\ IsEndLine(hist.fed[p])}
ContentPositions == {p \in 1..Len(hist.fed) : IsContentLine(hist.fed[p])}

\* the stack after the line at input position p was fed
StackAfter(p) == IF p < Len(hist.fed) THEN hist.before[p + 1] ELSE stack

\* the end lines that found more than the root on the stack
ClosingPositions == {p \in EndPositions : Len(hist.before[p]) > 1}

\* C17: after any sequence of feed_line calls the stack is not empty, its bottom
\* is the root, and each element above the bottom is the last child of the element
\* below it; the depth of the stack is 1 plus the number of blocks opened minus the
\* number of end lines that found more than the root on the stack.
C17_StackIsOpenPath ==
    /\ stack # <<>>
    /\ stack[1] = 1
    /\ blocks[1].name = kw.ROOT
    /\ \A k \in 1..(Len(stack) - 1) :
          /\ blocks[stack[k]].children # <<>>
          /\ stack[k + 1] = Last(blocks[stack[k]].children)
    /\ Len(stack) = 1 + Cardinality(OpenPositions) - Cardinality(ClosingPositions)

\* two blocks are open under the root, the outer one not the first child of the
\* root, after an end line at the root and an end line that closed a block
C17_Witness ==
    /\ Len(stack) = 3
    /\ Len(blocks[1].children) = 2
    /\ Cardinality(EndPositions) = 2
    /\ Cardinality(ClosingPositions) = 1

\* a begin marker with no keyword after it
IsBareBegin(line) == startswith(lower(strip(line)), begin_marker) /\ ~IsOpenLine(line)

\* the blocks that store the line fed at input position p
Holders(p) == {b \in 1..Len(blocks) : p \in SeqToSet(hist.linePos[b])}

end_keyword(line) ==
    LET rest == split(SubSeq(strip(line), Len(end_marker) + 1, Len(strip(line))))
    IN IF rest = <<>> THEN <<>> ELSE rest[1]

\* C19: an end line pops the innermost open block whatever text follows the end
\* marker, never comparing the keyword it names with the keyword of the block: an
\* end line fed with more than the root on the stack removes exactly the top, and
\* content lines fed afterwards go to the block below it (after /begin A, /begin B,
\* /end A the block closed is B and content goes to A).
C19_CloseIgnoresKeyword ==
    /\ \A p \in ClosingPositions :
          StackAfter(p) = SubSeq(hist.before[p], 1, Len(hist.before[p]) - 1)
    /\ \A p \in ContentPositions : Holders(p) = {Last(hist.before[p])}

\* /begin A, /begin B ..., /END A, c1 were fed: B was closed and c1 is in A
C19_Witness ==
    /\ Len(hist.fed) = 4
    /\ [k \in 1..3 |-> hist.fed[k]] = <<<<"/","b","e","g","i","n"," ","A">>, <<"/","b","e","g","i","n"," ","B"," ","x"," ","\"","y"," ","z","\"">>, <<" ","/","E","N","D"," ","A","\n">>>>
    /\ end_keyword(hist.fed[3]) = <<"A">> /\ blocks[3].name = <<"B">>
    /\ ContentPositions = {4}
    /\ stack = <<1, 2>>
    /\ blocks[2].name = <<"A">> /\ Len(blocks[2].lines) = 1
    /\ blocks[3].lines = <<>>

-----------------------------------------------------------------------------
(* Helpers shared by the entity decoders *)

\* the outcome of a call: the value returned, or the exception that left it
Return(v) == [ok |-> TRUE, exc |-> "", val |-> v]
Raised(e) == [ok |-> FALSE, exc |-> e, val |-> None]

\* [ln for ln in block.lines if ln.strip()]
nonblank(lines) == SelectSeq(lines, LAMBDA ln : strip(ln) # <<>>)

\* [tokenize_line(ln) for ln in lines]: raises as soon as one line does
RECURSIVE tokenize_lines(_)
tokenize_lines(lines) ==
    IF lines = <<>> THEN Tokens(<<>>)
    ELSE Bind(tokenize_line(Head(lines)), LAMBDA h :
             IF ~h.ok THEN h
             ELSE Bind(tokenize_lines(Tail(lines)), LAMBDA r :
                      IF ~r.ok THEN r ELSE Tokens(<<h.toks>> \o r.toks)))

\* the outcomes of a sequence of calls: the values of all, or the first exception
RECURSIVE all_of(_)
all_of(rs) ==
    IF rs = <<>> THEN Return(<<>>)
    ELSE IF ~Head(rs).ok THEN Raised(Head(rs).exc)
    ELSE Bind(all_of(Tail(rs)), LAMBDA rest :
             IF ~rest.ok THEN rest ELSE Return(<<Head(rs).val>> \o rest.val))

\* s[i:j] for 0 <= i <= j
slice(s, i, j) ==
    LET hi == IF j < Len(s) THEN j ELSE Len(s) IN
    IF i < hi THEN SubSeq(s, i + 1, hi) ELSE <<>>

\* the elements of s that satisfy Test, in order
Filter(s, Test(_)) == SelectSeq(s, Test)

Map(s, F(_)) == [k \in 1..Len(s) |-> F(s[k])]

-----------------------------------------------------------------------------
(* parse_daq_event *)

\* x.startswith('"') and x.endswith('"'), as tested on the tokens shlex returned
is_dq_token(x) == startswith(x, <<"\"">>) /\ endswith(x, <<"\"">>)

is_int_token(x) == to_int(x) # None
int_of(x) == to_int(x)[1]

is_event_type(x) == x \in {kw.DAQ, kw.STIM, kw.DAQ_STIM}

\* list.index: position of the first element equal to x (0 when there is none)
index_of(flat, x) == IndexOf(x, flat)

parse_daq_event_flat(bs, b, flat) ==
    Bind(Map(Filter(flat, is_dq_token), unquote), LAMBDA quoted :
    Bind(Map(Filter(flat, is_int_token), int_of), LAMBDA nums :
    Bind(Filter(flat, is_event_type), LAMBDA types :
    Bind(IF types # <<>> THEN Some(types[1]) ELSE None, LAMBDA type_tok :
    \* flat.index(None) raises inside the try block: the four fields stay None
    Bind(IF type_tok = None THEN 0 ELSE index_of(flat, type_tok[1]), LAMBDA ti :
    Bind(IF ti = 0 THEN <<>>
         ELSE Map(Filter(SubSeq(flat, ti + 1, Len(flat)), is_int_token), int_of), LAMBDA seq :
        [name |-> IF quoted # <<>> THEN quoted[1] ELSE <<>>,
         short_name |-> IF Len(quoted) > 1 THEN Some(quoted[2]) ELSE None,
         event_channel_number |-> IF nums # <<>> THEN Some(nums[1]) ELSE None,
         type |-> type_tok,
         max_daq_list |-> IF Len(seq) >= 4 THEN Some(seq[1]) ELSE None,
         cycle |-> IF Len(seq) >= 4 THEN Some(seq[2]) ELSE None,
         time_unit |-> IF Len(seq) >= 4 THEN Some(seq[3]) ELSE None,
         priority |-> IF Len(seq) >= 4 THEN Some(seq[4]) ELSE None,
         raw |-> bs[b].lines]))))))

parse_daq_event(bs, b) ==
    Bind(tokenize_lines(nonblank(bs[b].lines)), LAMBDA toks :
        IF ~toks.ok THEN Raised(toks.exc)
        ELSE Return(parse_daq_event_flat(bs, b, Flatten(toks.toks))))

-----------------------------------------------------------------------------
(* parse_compu_method and parse_compu_vtab *)

\* the closure next_tokens(): the tokens of the next line that has any, and the
\* cursor i after it; no tokens when the lines are used up
RECURSIVE next_tokens(_, _)
next_tokens(lines, i) ==
    IF i < Len(lines)
    THEN Bind(tokenize_line(lines[i + 1]), LAMBDA t :
             IF ~t.ok THEN [ok |-> FALSE, exc |-> t.exc, toks |-> <<>>, i |-> i + 1]
             ELSE IF t.toks # <<>> THEN [ok |-> TRUE, exc |-> "", toks |-> t.toks, i |-> i + 1]
             ELSE next_tokens(lines, i + 1))
    ELSE [ok |-> TRUE, exc |-> "", toks |-> <<>>, i |-> i]

\* block.args[0] if block.args else ""
name_of_args(args) == IF args # <<>> THEN args[1] ELSE <<>>

is_float_token(x) == to_float(x) # None
float_of(x) == to_float(x)[1]

\* the loop over lines[i:] of parse_compu_method: the coefficients, or the exception
RECURSIVE coeffs_loop(_, _, _)
coeffs_loop(lines, i, coeffs) ==
    IF i >= Len(lines) THEN [ok |-> TRUE, exc |-> "", coeffs |-> coeffs]
    ELSE Bind(tokenize_line(lines[i + 1]), LAMBDA tt :
             IF ~tt.ok THEN [ok |-> FALSE, exc |-> tt.exc, coeffs |-> coeffs]
             ELSE IF tt.toks # <<>> /\ upper(tt.toks[1]) = kw.COEFFS
                  THEN coeffs_loop(lines, i + 1,
                                   coeffs \o Map(Filter(Tail(tt.toks), is_float_token), float_of))
                  ELSE coeffs_loop(lines, i + 1, coeffs))

\* next_tokens() where the code calls it only `if lines`
next_if_lines(lines, i) ==
    IF lines # <<>> THEN next_tokens(lines, i)
    ELSE [ok |-> TRUE, exc |-> "", toks |-> <<>>, i |-> 0]

parse_compu_method(bs, b) ==
    Bind(nonblank(bs[b].lines), LAMBDA lines :
    Bind(next_if_lines(lines, 0), LAMBDA t1 :
    Bind(next_if_lines(lines, t1.i), LAMBDA t2 :
    Bind(next_if_lines(lines, t2.i), LAMBDA t3 :
    Bind(next_if_lines(lines, t3.i), LAMBDA t4 :
    Bind(coeffs_loop(lines, t4.i, <<>>), LAMBDA cs :
        IF ~t1.ok THEN Raised(t1.exc)
        ELSE IF ~t2.ok THEN Raised(t2.exc)
        ELSE IF lines # <<>> /\ t2.toks = <<>> THEN Raised("IndexError")   \* next_tokens()[0]
        ELSE IF ~t3.ok THEN Raised(t3.exc)
        ELSE IF ~t4.ok THEN Raised(t4.exc)
        ELSE IF ~cs.ok THEN Raised(cs.exc)
        ELSE Return([name |-> name_of_args(bs[b].args),
                     description |-> IF lines # <<>> THEN unquote(join(t1.toks)) ELSE <<>>,
                     method_type |-> IF lines # <<>> THEN t2.toks[1] ELSE <<>>,
                     format_str |-> IF lines # <<>> THEN Some(unquote(join(t3.toks))) ELSE None,
                     unit |-> IF lines # <<>> THEN Some(unquote(join(t4.toks))) ELSE None,
                     coeffs |-> cs.coeffs,
                     raw |-> bs[b].lines])))))))

\* one (value, verbal string) entry of the counted loop, when the line has an integer first
counted_entry(tt) ==
    <<int_of(tt[1]), strip_dq(IF Len(tt) > 1 THEN unquote(join(Tail(tt))) ELSE <<>>)>>

\* (mutant of counted_loop: the count is not decremented, the loop runs to the last line)
RECURSIVE counted_loop_unbounded(_, _, _, _)
counted_loop_unbounded(lines, i, n, entries) ==
    IF n <= 0 \/ i >= Len(lines) THEN [ok |-> TRUE, exc |-> "", entries |-> entries, i |-> i]
    ELSE Bind(next_tokens(lines, i), LAMBDA tt :
             IF ~tt.ok THEN [ok |-> FALSE, exc |-> tt.exc, entries |-> entries, i |-> tt.i]
             ELSE IF tt.toks # <<>> /\ is_int_token(tt.toks[1])
                  THEN counted_loop_unbounded(lines, tt.i, n,
                                              Append(entries, counted_entry(tt.toks)))
                  ELSE counted_loop_unbounded(lines, tt.i, n, entries))

\* for _ in range(count or 0): at most n more lines are fetched
RECURSIVE counted_loop(_, _, _, _)
counted_loop(lines, i, n, entries) ==
    IF n <= 0 THEN [ok |-> TRUE, exc |-> "", entries |-> entries, i |-> i]
    ELSE Bind(next_tokens(lines, i), LAMBDA tt :
             IF ~tt.ok THEN [ok |-> FALSE, exc |-> tt.exc, entries |-> entries, i |-> tt.i]
             ELSE IF tt.toks # <<>> /\ is_int_token(tt.toks[1])
                  THEN counted_loop(lines, tt.i, n - 1, Append(entries, counted_entry(tt.toks)))
                  ELSE counted_loop(lines, tt.i, n - 1, entries))

\* one entry of the uncounted loop
greedy_entry(tt) == <<int_of(tt[1]), unquote(join(Tail(tt)))>>

\* while True: fetch lines until next_tokens() has none left
RECURSIVE greedy_loop(_, _, _)
greedy_loop(lines, i, entries) ==
    Bind(next_tokens(lines, i), LAMBDA tt :
        IF ~tt.ok THEN [ok |-> FALSE, exc |-> tt.exc, entries |-> entries, i |-> tt.i]
        ELSE IF tt.toks = <<>> THEN [ok |-> TRUE, exc |-> "", entries |-> entries, i |-> tt.i]
        ELSE IF is_int_token(tt.toks[1])
             THEN greedy_loop(lines, tt.i, Append(entries, greedy_entry(tt.toks)))
             ELSE greedy_loop(lines, tt.i, entries))

\* the entries of parse_compu_vtab, from the line after the table type on
vtab_entries(lines, i) ==
    Bind(next_tokens(lines, i), LAMBDA t :
        IF ~t.ok THEN [ok |-> FALSE, exc |-> t.exc, entries |-> <<>>, i |-> t.i]
        ELSE Bind(IF t.toks # <<>> THEN to_int(t.toks[1]) ELSE None, LAMBDA count :
                 IF count # None THEN counted_loop(lines, t.i, count[1], <<>>)
                 ELSE greedy_loop(lines, t.i, <<>>)))

parse_compu_vtab(bs, b) ==
    Bind(nonblank(bs[b].lines), LAMBDA lines :
    Bind(next_if_lines(lines, 0), LAMBDA t1 :
    Bind(next_if_lines(lines, t1.i), LAMBDA t2 :
    Bind(vtab_entries(lines, t2.i), LAMBDA es :
        IF ~t1.ok THEN Raised(t1.exc)
        ELSE IF ~t2.ok THEN Raised(t2.exc)
        ELSE IF lines # <<>> /\ t2.toks = <<>> THEN Raised("IndexError")   \* next_tokens()[0]
        ELSE IF ~es.ok THEN Raised(es.exc)
        ELSE Return([name |-> name_of_args(bs[b].args),
                     description |-> IF lines # <<>> THEN unquote(join(t1.toks)) ELSE <<>>,
                     tab_type |-> IF lines # <<>> THEN t2.toks[1] ELSE <<>>,
                     entries |-> es.entries,
                     raw |-> bs[b].lines])))))

-----------------------------------------------------------------------------
(* parse_axis_pts, parse_measurement and parse_characteristic *)

\* the name of the entity and the cursor i after it: block.args[0], or the first
\* token of the first line when the begin line has no arguments
name_in_body(args, lines) ==
    IF args # <<>> THEN [ok |-> TRUE, exc |-> "", name |-> args[1], i |-> 0]
    ELSE Bind(IF 0 < Len(lines) THEN tokenize_line(lines[1]) ELSE Tokens(<<>>), LAMBDA first :
             IF ~first.ok THEN [ok |-> FALSE, exc |-> first.exc, name |-> <<>>, i |-> 1]
             ELSE [ok |-> TRUE, exc |-> "",
                   name |-> IF first.toks # <<>> THEN first.toks[1] ELSE <<>>, i |-> 1])

\* n calls of the closure in a row: for each the cursor before it (at) and the
\* tokens it returned, and the cursor i after the last
RECURSIVE next_n(_, _, _)
next_n(lines, i, n) ==
    IF n = 0 THEN [ok |-> TRUE, exc |-> "", got |-> <<>>, i |-> i]
    ELSE Bind(next_tokens(lines, i), LAMBDA t :
             IF ~t.ok THEN [ok |-> FALSE, exc |-> t.exc, got |-> <<>>, i |-> t.i]
             ELSE Bind(next_n(lines, t.i, n - 1), LAMBDA r :
                      IF ~r.ok THEN r
                      ELSE [r EXCEPT !.got = <<[at |-> i, toks |-> t.toks]>> \o @]))

\* t[0] if t else None, and its readings as an integer and as a number
first_token(t) == IF t # <<>> THEN Some(t[1]) ELSE None
first_int(t) == IF t # <<>> THEN to_int(t[1]) ELSE None
first_number(t) == IF t # <<>> THEN float_or_int(t[1]) ELSE None

\* (unquote(tt[1]), to_int(tt[2]) or 0)
symbol_link_of(tt) ==
    <<unquote(tt[2]), Bind(to_int(tt[3]), LAMBDA v : IF v = None THEN 0 ELSE v[1])>>

\* one pass of the loop over the optional lines of an AXIS_PTS block
axis_option(f, tt) ==
    IF tt = <<>> THEN f
    ELSE IF upper(tt[1]) = kw.BYTE_ORDER
         THEN IF Len(tt) > 1 THEN [f EXCEPT !.byte_order = Some(tt[2])] ELSE f
    ELSE IF upper(tt[1]) = kw.FORMAT
         THEN IF Len(tt) > 1 THEN [f EXCEPT !.format_str = Some(tt[2])] ELSE f
    ELSE IF upper(tt[1]) = kw.SYMBOL_LINK
         THEN IF Len(tt) >= 3 THEN [f EXCEPT !.symbol_link = Some(symbol_link_of(tt))] ELSE f
    ELSE f

\* (mutant of measurement_line: a line of two numbers sets the limits and is
\* appended to params as well)
measurement_line_appending(f, t) ==
    IF t = <<>> THEN f
    ELSE Bind(upper(t[1]), LAMBDA key :
        IF key \in {kw.ECU_ADDRESS, kw.ADDRESS}
        THEN IF Len(t) > 1
             THEN Bind(to_int(t[2]), LAMBDA val :
                      IF key = kw.ECU_ADDRESS THEN [f EXCEPT !.ecu_address = val]
                      ELSE [f EXCEPT !.address = val])
             ELSE f
        ELSE IF key = kw.SYMBOL_LINK
             THEN IF Len(t) >= 3 THEN [f EXCEPT !.symbol_link = Some(symbol_link_of(t))] ELSE f
        ELSE Bind(float_or_int(t[1]), LAMBDA lower_ :
             Bind(IF Len(t) > 1 THEN float_or_int(t[2]) ELSE None, LAMBDA upper_ :
                 IF Len(t) = 1 /\ lower_ # None THEN [f EXCEPT !.params = Append(@, t[1])]
                 ELSE IF Len(t) = 2 /\ lower_ # None /\ upper_ # None
                      THEN [f EXCEPT !.lower_limit = lower_, !.upper_limit = upper_,
                                     !.params = @ \o t]
                 ELSE [f EXCEPT !.params = @ \o t])))

\* one pass of the loop over the remaining lines of a MEASUREMENT block
measurement_line(f, t) ==
    IF t = <<>> THEN f
    ELSE Bind(upper(t[1]), LAMBDA key :
        IF key \in {kw.ECU_ADDRESS, kw.ADDRESS}
        THEN IF Len(t) > 1
             THEN Bind(to_int(t[2]), LAMBDA val :
                      IF key = kw.ECU_ADDRESS THEN [f EXCEPT !.ecu_address = val]
                      ELSE [f EXCEPT !.address = val])
             ELSE f
        ELSE IF key = kw.SYMBOL_LINK
             THEN IF Len(t) >= 3 THEN [f EXCEPT !.symbol_link = Some(symbol_link_of(t))] ELSE f
        \* lower, upper: each token as a float, else as an int, else None
        ELSE Bind(float_or_int(t[1]), LAMBDA lower_ :
             Bind(IF Len(t) > 1 THEN float_or_int(t[2]) ELSE None, LAMBDA upper_ :
                 IF Len(t) = 1 /\ lower_ # None THEN [f EXCEPT !.params = Append(@, t[1])]
                 ELSE IF Len(t) = 2 /\ lower_ # None /\ upper_ # None
                      THEN [f EXCEPT !.lower_limit = lower_, !.upper_limit = upper_]
                 ELSE [f EXCEPT !.params = @ \o t])))

\* one pass of the loop over the remaining lines of a CHARACTERISTIC block
characteristic_line(f, tt) ==
    IF tt # <<>> /\ upper(tt[1]) = kw.SYMBOL_LINK /\ Len(tt) >= 3
    THEN [f EXCEPT !.symbol_link = Some(symbol_link_of(tt))]
    ELSE f

\* the loop over lines[i:] of the decoder of the given kind, starting from the
\* entity f
RECURSIVE rest_loop(_, _, _, _)
rest_loop(kind, lines, i, f) ==
    IF i >= Len(lines) THEN Return(f)
    ELSE Bind(tokenize_line(lines[i + 1]), LAMBDA tt :
             IF ~tt.ok THEN Raised(tt.exc)
             ELSE rest_loop(kind, lines, i + 1,
                            CASE kind = "axis_pts" -> axis_option(f, tt.toks)
                              [] kind = "measurement" -> measurement_line(f, tt.toks)
                              [] kind = "characteristic" -> characteristic_line(f, tt.toks)))

parse_axis_pts(bs, b) ==
    Bind(nonblank(bs[b].lines), LAMBDA lines :
    Bind(name_in_body(bs[b].args, lines), LAMBDA nm :
        IF ~nm.ok THEN Raised(nm.exc)
        ELSE Bind(next_n(lines, nm.i, 9), LAMBDA r :
            IF ~r.ok THEN Raised(r.exc)
            ELSE rest_loop("axis_pts", lines, r.i,
                    [name |-> nm.name,
                     description |-> IF r.got[1].toks # <<>> THEN unquote(join(r.got[1].toks))
                                     ELSE <<>>,
                     address |-> first_int(r.got[2].toks),
                     input_quantity |-> first_token(r.got[3].toks),
                     record_layout |-> first_token(r.got[4].toks),
                     deposit |-> first_int(r.got[5].toks),
                     compu_method |-> first_token(r.got[6].toks),
                     max_axis_points |-> first_int(r.got[7].toks),
                     lower_limit |-> first_number(r.got[8].toks),
                     upper_limit |-> first_number(r.got[9].toks),
                     byte_order |-> None,
                     format_str |-> None,
                     symbol_link |-> None,
                     raw |-> bs[b].lines]))))

\* next_tokens()[0] if i < len(lines) else "", for the call g of next_n
first_or_empty(g, lines) ==
    IF g.at < Len(lines)
    THEN IF g.toks = <<>> THEN Raised("IndexError") ELSE Return(g.toks[1])
    ELSE Return(<<>>)

\* unquote(" ".join(next_tokens())) if i < len(lines) else "", for the call g
joined_or_empty(g, lines) == IF g.at < Len(lines) THEN unquote(join(g.toks)) ELSE <<>>

parse_measurement(bs, b) ==
    Bind(nonblank(bs[b].lines), LAMBDA lines :
    Bind(name_in_body(bs[b].args, lines), LAMBDA nm :
        IF ~nm.ok THEN Raised(nm.exc)
        ELSE Bind(next_n(lines, nm.i, 3), LAMBDA r :
            IF ~r.ok THEN Raised(r.exc)
            ELSE Bind(first_or_empty(r.got[2], lines), LAMBDA datatype :
                 Bind(first_or_empty(r.got[3], lines), LAMBDA compu_method :
                IF ~datatype.ok THEN datatype
                ELSE IF ~compu_method.ok THEN compu_method
                ELSE rest_loop("measurement", lines, r.i,
                        [name |-> nm.name,
                         description |-> joined_or_empty(r.got[1], lines),
                         datatype |-> datatype.val,
                         compu_method |-> compu_method.val,
                         params |-> <<>>,
                         ecu_address |-> None,
                         address |-> None,
                         lower_limit |-> None,
                         upper_limit |-> None,
                         symbol_link |-> None,
                         raw |-> bs[b].lines]))))))

parse_characteristic(bs, b) ==
    Bind(nonblank(bs[b].lines), LAMBDA lines :
    Bind(name_in_body(bs[b].args, lines), LAMBDA nm :
        IF ~nm.ok THEN Raised(nm.exc)
        ELSE Bind(next_n(lines, nm.i, 8), LAMBDA r :
            IF ~r.ok THEN Raised(r.exc)
            ELSE Bind(first_or_empty(r.got[2], lines), LAMBDA char_type :
                IF ~char_type.ok THEN char_type
                ELSE rest_loop("characteristic", lines, r.i,
                        [name |-> nm.name,
                         description |-> joined_or_empty(r.got[1], lines),
                         char_type |-> char_type.val,
                         address |-> first_int(r.got[3].toks),
                         record_layout |-> first_token(r.got[4].toks),
                         max_diff |-> first_number(r.got[5].toks),
                         compu_method |-> first_token(r.got[6].toks),
                         lower_limit |-> first_number(r.got[7].toks),
                         upper_limit |-> first_number(r.got[8].toks),
                         symbol_link |-> None,
                         raw |-> bs[b].lines])))))

-----------------------------------------------------------------------------
(* parse_record_layout, parse_group and parse_function *)

parse_record_layout(bs, b) ==
    Return([name |-> name_of_args(bs[b].args),
            entries |-> Map(nonblank(bs[b].lines), strip),
            raw |-> bs[b].lines])

\* the description of a GROUP or FUNCTION block: its first non-blank line
description_line(lines) ==
    IF lines = <<>> THEN Return(<<>>)
    ELSE Bind(tokenize_line(lines[1]), LAMBDA t :
             IF ~t.ok THEN Raised(t.exc)
             ELSE Return(IF t.toks # <<>> THEN unquote(join(t.toks)) ELSE <<>>))

\* the tokens of all lines of the children of b named name, without the
\* tokens /begin and /end
RECURSIVE reference_tokens(_, _)
reference_tokens(bs, ids) ==
    IF ids = <<>> THEN Return(<<>>)
    ELSE Bind(tokenize_lines(bs[Head(ids)].lines), LAMBDA toks :
             IF ~toks.ok THEN Raised(toks.exc)
             ELSE Bind(reference_tokens(bs, Tail(ids)), LAMBDA rest :
                      IF ~rest.ok THEN rest
                      ELSE Return(SelectSeq(Flatten(toks.toks),
                                            LAMBDA tok : tok \notin {begin_marker, end_marker})
                                  \o rest.val)))

parse_group(bs, b) ==
    Bind(description_line(nonblank(bs[b].lines)), LAMBDA desc :
    Bind(reference_tokens(bs, get_children(bs, b, kw.REF_MEASUREMENT)), LAMBDA refs :
        IF ~desc.ok THEN desc
        ELSE IF ~refs.ok THEN refs
        ELSE Return([name |-> name_of_args(bs[b].args), description |-> desc.val,
                     ref_measurements |-> refs.val, raw |-> bs[b].lines])))

parse_function(bs, b) ==
    Bind(description_line(nonblank(bs[b].lines)), LAMBDA desc :
    Bind(reference_tokens(bs, get_children(bs, b, kw.LOC_MEASUREMENT)), LAMBDA loc :
        IF ~desc.ok THEN desc
        ELSE IF ~loc.ok THEN loc
        ELSE Return([name |-> name_of_args(bs[b].args), description |-> desc.val,
                     loc_measurements |-> loc.val, raw |-> bs[b].lines])))

-----------------------------------------------------------------------------
(* parse_protocol_layer *)

\* the condition that leaves the while loop over the timing values
ends_timing(tok) ==
    \/ startswith(tok, kw.BYTE_ORDER)
    \/ startswith(tok, kw.ADDRESS_GRANULARITY)
    \/ tok = kw.OPTIONAL_CMD
    \/ tok = kw.COMMUNICATION_MODE_SUPPORTED

\* while idx < len(flat): the integers appended to pl.timing_values
RECURSIVE timing_loop(_, _, _)
timing_loop(flat, idx, timing) ==
    IF idx < Len(flat)
    THEN IF ends_timing(flat[idx + 1]) THEN timing
         ELSE Bind(to_int(flat[idx + 1]), LAMBDA v :
                  IF v # None THEN timing_loop(flat, idx + 1, Append(timing, v[1]))
                  ELSE timing)
    ELSE timing

\* one pass of for i, tok in enumerate(flat), i counted from 0
layer_token(pl, flat, i) ==
    LET tok == flat[i + 1] IN
    IF startswith(tok, kw.BYTE_ORDER) THEN [pl EXCEPT !.byte_order = Some(tok)]
    ELSE IF startswith(tok, kw.ADDRESS_GRANULARITY)
         THEN [pl EXCEPT !.address_granularity = Some(tok)]
    ELSE IF tok = kw.OPTIONAL_CMD /\ i + 1 < Len(flat)
         THEN [pl EXCEPT !.optional_cmds = Append(@, flat[i + 2])]
    ELSE IF tok = kw.COMMUNICATION_MODE_SUPPORTED /\ i + 1 < Len(flat)
         THEN [pl EXCEPT !.communication_mode = Some(flat[i + 2])]
    ELSE IF tok = kw.MASTER /\ i + 2 < Len(flat)
         THEN [pl EXCEPT !.master_max_bs = to_int(flat[i + 2]),
                         !.master_min_st = to_int(flat[i + 3])]
    ELSE pl

RECURSIVE layer_tokens(_, _, _)
layer_tokens(pl, flat, i) ==
    IF i < Len(flat) THEN layer_tokens(layer_token(pl, flat, i), flat, i + 1) ELSE pl

\* the integers among the tokens before the first BYTE_ORDER or ADDRESS_GRANULARITY
RECURSIVE before_enum(_)
before_enum(flat) ==
    IF flat = <<>> THEN <<>>
    ELSE IF startswith(Head(flat), kw.BYTE_ORDER) \/ startswith(Head(flat), kw.ADDRESS_GRANULARITY)
         THEN <<>>
    ELSE Bind(to_int(Head(flat)), LAMBDA v :
             IF v # None THEN <<v[1]>> \o before_enum(Tail(flat))
             ELSE before_enum(Tail(flat)))

ProtocolLayer(raw) ==
    [version |-> None, timing_values |-> <<>>, max_cto |-> None, max_dto |-> None,
     byte_order |-> None, address_granularity |-> None, optional_cmds |-> <<>>,
     communication_mode |-> None, master_max_bs |-> None, master_min_st |-> None,
     raw |-> raw]

parse_protocol_layer_flat(pl, flat) ==
    Bind(IF flat # <<>> THEN to_int(flat[1]) ELSE None, LAMBDA version :
    Bind(IF version # None THEN 1 ELSE 0, LAMBDA idx :
    Bind([pl EXCEPT !.version = version,
                    !.timing_values = timing_loop(flat, idx, <<>>)], LAMBDA p1 :
    Bind(layer_tokens(p1, flat, 0), LAMBDA p2 :
    Bind(before_enum(flat), LAMBDA be :
        IF Len(be) >= 3
        THEN [p2 EXCEPT !.max_cto = Some(be[Len(be) - 2]), !.max_dto = Some(be[Len(be) - 1])]
        ELSE p2)))))

parse_protocol_layer(bs, b) ==
    Bind(tokenize_lines(bs[b].lines), LAMBDA toks :
        IF ~toks.ok THEN Raised(toks.exc)
        ELSE Return(parse_protocol_layer_flat(ProtocolLayer(bs[b].lines), Flatten(toks.toks))))

-----------------------------------------------------------------------------
(* parse_daq *)

DaqConfig(raw) ==
    [mode |-> None, max_daq |-> None, max_event_channel |-> None, min_daq |-> None,
     identification_field_type |-> None, odt_entry_granularity_daq |-> None,
     max_odt_entry_size_daq |-> None, overload_indication |-> None,
     stim_granularity |-> None, max_odt_entry_size_stim |-> None,
     bit_stim_supported |-> FALSE, events |-> <<>>, raw |-> raw]

\* one pass of the first loop over the tokens
daq_token(dq, tok) ==
    IF startswith(tok, kw.IDENTIFICATION_FIELD_TYPE_)
    THEN [dq EXCEPT !.identification_field_type = Some(tok)]
    ELSE IF \/ startswith(tok, kw.GRANULARITY_ODT_ENTRY_SIZE_DAQ_)
            \/ startswith(tok, kw.GRANULARITY_ODT_ENTRY_SIZE_DAQ)
         THEN [dq EXCEPT !.odt_entry_granularity_daq = Some(tok)]
    ELSE IF tok = kw.OVERLOAD_INDICATION_EVENT
         THEN [dq EXCEPT !.overload_indication = Some(kw.EVENT)]
    ELSE IF startswith(tok, kw.GRANULARITY_ODT_ENTRY_SIZE_STIM_)
         THEN [dq EXCEPT !.stim_granularity = Some(tok)]
    ELSE IF tok = kw.BIT_STIM_SUPPORTED THEN [dq EXCEPT !.bit_stim_supported = TRUE]
    ELSE dq

\* one pass of the second loop, i counted from 0
daq_size(dq, flat, i) ==
    Bind(flat[i + 1], LAMBDA tok :
    Bind(IF i + 1 < Len(flat) THEN to_int(flat[i + 2]) ELSE None, LAMBDA size :
    Bind(IF startswith(tok, kw.GRANULARITY_ODT_ENTRY_SIZE_DAQ) /\ i + 1 < Len(flat)
         THEN [dq EXCEPT !.max_odt_entry_size_daq = size] ELSE dq, LAMBDA d1 :
        IF startswith(tok, kw.GRANULARITY_ODT_ENTRY_SIZE_STIM) /\ i + 1 < Len(flat)
        THEN [d1 EXCEPT !.max_odt_entry_size_stim = size] ELSE d1)))

RECURSIVE daq_loops(_, _, _, _)
daq_loops(dq, flat, i, second) ==
    IF i < Len(flat)
    THEN daq_loops(IF second THEN daq_size(dq, flat, i) ELSE daq_token(dq, flat[i + 1]),
                   flat, i + 1, second)
    ELSE dq

parse_daq_flat(dq, flat) ==
    Bind(Map(slice(flat, 1, 4), to_int), LAMBDA nums :
    Bind(IF flat # <<>>
         THEN [dq EXCEPT !.mode = IF flat[1] \in {kw.STATIC, kw.DYNAMIC}
                                  THEN Some(flat[1]) ELSE None]
         ELSE dq, LAMBDA d1 :
    Bind(IF Len(nums) >= 3
         THEN [d1 EXCEPT !.max_daq = nums[1], !.max_event_channel = nums[2],
                         !.min_daq = nums[3]]
         ELSE d1, LAMBDA d2 :
        daq_loops(daq_loops(d2, flat, 0, FALSE), flat, 0, TRUE))))

parse_daq(bs, b) ==
    Bind(tokenize_lines(bs[b].lines), LAMBDA toks :
    Bind(get_children(bs, b, kw.EVENT), LAMBDA evs :
    Bind(all_of([k \in 1..Len(evs) |-> parse_daq_event(bs, evs[k])]), LAMBDA events :
        IF ~toks.ok THEN Raised(toks.exc)
        ELSE IF ~events.ok THEN Raised(events.exc)
        ELSE Return([parse_daq_flat(DaqConfig(bs[b].lines), Flatten(toks.toks))
                     EXCEPT !.events = events.val]))))

-----------------------------------------------------------------------------
(* parse_xcp_on_can and parse_can_fd *)

key_chars == {UpperLetters[k] : k \in 1..Len(UpperLetters)}
             \cup {"0", "1", "2", "3", "4", "5", "6", "7", "8", "9", "_"}

\* the length of the longest prefix of s made of characters of cs
RECURSIVE run_of(_, _)
run_of(s, cs) == IF s = <<>> \/ Head(s) \notin cs THEN 0 ELSE 1 + run_of(Tail(s), cs)

\* kv_re.match(s) for r"^([A-Z0-9_]+)\s+(\S+)$" and a stripped s: None, or the
\* groups (key, value)
kv_match(s) ==
    Bind(run_of(s, key_chars), LAMBDA n :
    Bind(SubSeq(s, n + 1, Len(s)), LAMBDA rest :
    Bind(lstrip_chars(rest, whitespace), LAMBDA value :
        IF n > 0 /\ rest # <<>> /\ rest[1] \in whitespace
           /\ value # <<>> /\ nonspace_run(value) = Len(value)
        THEN Some([key |-> SubSeq(s, 1, n), value |-> value])
        ELSE None)))

XcpOnCanFdConfig(raw) ==
    [max_dlc |-> None, data_transfer_baudrate |-> None, sample_point |-> None,
     btl_cycles |-> None, sjw |-> None, sync_edge |-> None, max_dlc_required |-> FALSE,
     secondary_sample_point |-> None, tdc |-> None, raw |-> raw]

XcpOnCanConfig(raw) ==
    [version |-> None, can_id_broadcast |-> None, can_id_master |-> None,
     can_id_slave |-> None, can_id_get_daq_clock_multicast |-> None, baudrate |-> None,
     sample_point |-> None, sample_rate |-> None, btl_cycles |-> None, sjw |-> None,
     sync_edge |-> None, max_dlc_required |-> FALSE, max_bus_load |-> None,
     can_fd |-> None, raw |-> raw]

\* the if / elif chain of parse_can_fd on one key and value
can_fd_key(fd, ku, value) ==
    Bind(to_int(value), LAMBDA n :
        IF ku = <<"M","A","X","_","D","L","C">> THEN [fd EXCEPT !.max_dlc = n]
        ELSE IF ku = <<"C","A","N","_","F","D","_","D","A","T","A","_","T","R","A","N","S","F","E","R","_","B","A","U","D","R","A","T","E">>
             THEN [fd EXCEPT !.data_transfer_baudrate = n]
        ELSE IF ku = <<"S","A","M","P","L","E","_","P","O","I","N","T">> THEN [fd EXCEPT !.sample_point = n]
        ELSE IF ku = <<"B","T","L","_","C","Y","C","L","E","S">> THEN [fd EXCEPT !.btl_cycles = n]
        ELSE IF ku = <<"S","J","W">> THEN [fd EXCEPT !.sjw = n]
        ELSE IF ku = <<"S","Y","N","C","_","E","D","G","E">> THEN [fd EXCEPT !.sync_edge = Some(value)]
        ELSE IF ku = <<"M","A","X","_","D","L","C","_","R","E","Q","U","I","R","E","D">> THEN [fd EXCEPT !.max_dlc_required = TRUE]
        ELSE IF ku = <<"S","E","C","O","N","D","A","R","Y","_","S","A","M","P","L","E","_","P","O","I","N","T">>
             THEN [fd EXCEPT !.secondary_sample_point = n]
        ELSE IF ku = <<"T","R","A","N","S","C","E","I","V","E","R","_","D","E","L","A","Y","_","C","O","M","P","E","N","S","A","T","I","O","N">> THEN [fd EXCEPT !.tdc = Some(value)]
        ELSE fd)

\* the if / elif chain of parse_xcp_on_can on one key and value
xcp_key(xcp, key_u, value) ==
    Bind(to_int(value), LAMBDA n :
        IF key_u = <<"C","A","N","_","I","D","_","B","R","O","A","D","C","A","S","T">> THEN [xcp EXCEPT !.can_id_broadcast = n]
        ELSE IF key_u = <<"C","A","N","_","I","D","_","M","A","S","T","E","R">> THEN [xcp EXCEPT !.can_id_master = n]
        ELSE IF key_u = <<"C","A","N","_","I","D","_","S","L","A","V","E">> THEN [xcp EXCEPT !.can_id_slave = n]
        ELSE IF key_u = <<"C","A","N","_","I","D","_","G","E","T","_","D","A","Q","_","C","L","O","C","K","_","M","U","L","T","I","C","A","S","T">>
             THEN [xcp EXCEPT !.can_id_get_daq_clock_multicast = n]
        ELSE IF key_u = <<"B","A","U","D","R","A","T","E">> THEN [xcp EXCEPT !.baudrate = n]
        ELSE IF key_u = <<"S","A","M","P","L","E","_","P","O","I","N","T">> THEN [xcp EXCEPT !.sample_point = n]
        ELSE IF key_u = <<"S","A","M","P","L","E","_","R","A","T","E">> THEN [xcp EXCEPT !.sample_rate = Some(value)]
        ELSE IF key_u = <<"B","T","L","_","C","Y","C","L","E","S">> THEN [xcp EXCEPT !.btl_cycles = n]
        ELSE IF key_u = <<"S","J","W">> THEN [xcp EXCEPT !.sjw = n]
        ELSE IF key_u = <<"S","Y","N","C","_","E","D","G","E">> THEN [xcp EXCEPT !.sync_edge = Some(value)]
        ELSE IF key_u = <<"M","A","X","_","D","L","C","_","R","E","Q","U","I","R","E","D">> THEN [xcp EXCEPT !.max_dlc_required = TRUE]
        ELSE IF key_u = <<"M","A","X","_","B","U","S","_","L","O","A","D">> THEN [xcp EXCEPT !.max_bus_load = n]
        ELSE xcp)

\* the groups of the lines that kv_re matches, in order
kv_pairs(lines) == Flatten([k \in 1..Len(lines) |-> kv_match(strip(lines[k]))])

\* for ln in block.lines of parse_can_fd
RECURSIVE can_fd_lines(_, _)
can_fd_lines(fd, pairs) ==
    IF pairs = <<>> THEN fd
    ELSE can_fd_lines(can_fd_key(fd, upper(Head(pairs).key), Head(pairs).value), Tail(pairs))

\* for ln in lines of parse_xcp_on_can
RECURSIVE xcp_lines(_, _)
xcp_lines(xcp, pairs) ==
    IF pairs = <<>> THEN xcp
    ELSE xcp_lines(xcp_key(xcp, upper(Head(pairs).key), Head(pairs).value), Tail(pairs))

parse_can_fd(bs, b) ==
    Return(can_fd_lines(XcpOnCanFdConfig(bs[b].lines), kv_pairs(bs[b].lines)))

parse_xcp_on_can(bs, b) ==
    Bind(tokenize_lines(nonblank(bs[b].lines)), LAMBDA toks :
        IF ~toks.ok THEN Raised(toks.exc)
        ELSE
    Bind(Flatten(toks.toks), LAMBDA flat :
    Bind([XcpOnCanConfig(bs[b].lines)
          EXCEPT !.version = IF flat # <<>> THEN to_int(flat[1]) ELSE None], LAMBDA x1 :
    Bind(xcp_lines(x1, kv_pairs(bs[b].lines)), LAMBDA x2 :
    Bind(get_first_child(bs, b, kw.CAN_FD), LAMBDA fd_block :
        IF fd_block = None THEN Return(x2)
        ELSE Return([x2 EXCEPT !.can_fd = Some(parse_can_fd(bs, fd_block[1]).val)]))))))

-----------------------------------------------------------------------------
(* parse_segment_info and parse_memory_segment *)

\* the loop over cs.lines: the first token of the first line that has one
RECURSIVE checksum_type(_)
checksum_type(lines) ==
    IF lines = <<>> THEN Return(None)
    ELSE Bind(tokenize_line(Head(lines)), LAMBDA t :
             IF ~t.ok THEN Raised(t.exc)
             ELSE IF t.toks # <<>> THEN Return(Some(t.toks[1]))
             ELSE checksum_type(Tail(lines)))

\* PageInfo of one PAGE block
page_info(bs, pg) ==
    Bind(tokenize_lines(nonblank(bs[pg].lines)), LAMBDA toks :
        IF ~toks.ok THEN Raised(toks.exc)
        ELSE
    Bind(Flatten(toks.toks), LAMBDA flatp :
        Return([page_number |-> IF flatp # <<>> THEN to_int(flatp[1]) ELSE None,
                ecu_access |-> IF Len(flatp) > 1 THEN Some(flatp[2]) ELSE None,
                xcp_read_access |-> IF Len(flatp) > 2 THEN Some(flatp[3]) ELSE None,
                xcp_write_access |-> IF Len(flatp) > 3 THEN Some(flatp[4]) ELSE None])))

parse_segment_info(bs, b) ==
    Bind(tokenize_lines(nonblank(bs[b].lines)), LAMBDA toks :
    Bind(Map(Filter(Flatten(toks.toks), is_int_token), int_of), LAMBDA nums :
    Bind(get_first_child(bs, b, kw.CHECKSUM), LAMBDA cs :
    Bind(IF cs # None THEN checksum_type(bs[cs[1]].lines) ELSE Return(None), LAMBDA ct :
    Bind(get_children(bs, b, kw.PAGE), LAMBDA pgs :
    Bind(all_of([k \in 1..Len(pgs) |-> page_info(bs, pgs[k])]), LAMBDA pages :
        IF ~toks.ok THEN Raised(toks.exc)
        ELSE IF ~ct.ok THEN Raised(ct.exc)
        ELSE IF ~pages.ok THEN Raised(pages.exc)
        ELSE Return([segment_number |-> IF Len(nums) >= 5 THEN Some(nums[1]) ELSE None,
                     num_pages |-> IF Len(nums) >= 5 THEN Some(nums[2]) ELSE None,
                     address_extension |-> IF Len(nums) >= 5 THEN Some(nums[3]) ELSE None,
                     compression_method |-> IF Len(nums) >= 5 THEN Some(nums[4]) ELSE None,
                     encryption_method |-> IF Len(nums) >= 5 THEN Some(nums[5]) ELSE None,
                     checksum_type |-> ct.val,
                     pages |-> pages.val,
                     raw |-> bs[b].lines])))))))

\* what the loop over block.lines has found so far
segment_start == [class_type |-> None, memory_type |-> None, address |-> None,
                  size |-> None, attrs |-> <<>>]

\* the INTERN / EXTERN branch of the loop, for the tokens parts of one line
access_line(f, parts) ==
    IF parts # <<>> /\ parts[1] \in {kw.INTERN, kw.EXTERN} /\ f.address = None /\ Len(parts) >= 3
    THEN [f EXCEPT !.address = to_int(parts[2]),
                   !.size = to_int(parts[3]),
                   !.attrs = IF Len(parts) > 3 THEN SubSeq(parts, 4, Len(parts)) ELSE @]
    ELSE f

\* one pass of the loop body, for the stripped non-empty line s split into tt
segment_line(f, tt) ==
    IF f.class_type = None /\ f.memory_type = None
       /\ Len(tt) = 2 /\ isalpha(tt[1]) /\ isalpha(tt[2])
    THEN [f EXCEPT !.class_type = Some(tt[1]), !.memory_type = Some(tt[2])]
    ELSE access_line(f, tt)

\* for ln in block.lines
RECURSIVE segment_loop(_, _)
segment_loop(lines, f) ==
    IF lines = <<>> THEN Return(f)
    ELSE Bind(strip(Head(lines)), LAMBDA s :
             IF s = <<>> THEN segment_loop(Tail(lines), f)
             ELSE Bind(tokenize_line(s), LAMBDA tt :
                      IF ~tt.ok THEN Raised(tt.exc)
                      ELSE segment_loop(Tail(lines), segment_line(f, tt.toks))))

\* block.IF_DATA.XCPplus.SEGMENT, the first child of each kind, decoded; or None
segment_info_of(bs, b) ==
    Bind(get_first_child(bs, b, kw.IF_DATA), LAMBDA if_data :
    Bind(IF if_data # None THEN get_first_child(bs, if_data[1], kw.XCPplus) ELSE None,
         LAMBDA xcpp :
    Bind(IF xcpp # None THEN get_first_child(bs, xcpp[1], kw.SEGMENT) ELSE None,
         LAMBDA segblk :
        IF segblk = None THEN Return(None)
        ELSE Bind(parse_segment_info(bs, segblk[1]), LAMBDA si :
                 IF ~si.ok THEN si ELSE Return(Some(si.val))))))

parse_memory_segment(bs, b) ==
    Bind(bs[b].args, LAMBDA args :
    Bind(segment_loop(bs[b].lines, segment_start), LAMBDA f :
    Bind(segment_info_of(bs, b), LAMBDA si :
        IF ~f.ok THEN Raised(f.exc)
        ELSE IF ~si.ok THEN Raised(si.exc)
        ELSE Return([name |-> name_of_args(args),
                     long_identifier |-> IF Len(args) > 1 THEN Some(unquote(join(Tail(args))))
                                         ELSE None,
                     class_type |-> f.val.class_type,
                     memory_type |-> f.val.memory_type,
                     address |-> f.val.address,
                     size |-> f.val.size,
                     attributes |-> f.val.attrs,
                     segment_info |-> si.val,
                     raw |-> bs[b].lines]))))

-----------------------------------------------------------------------------
(* strip_block_comments, str.splitlines and A2LParser.parse_text *)

\* the least position k >= from where pat occurs in s, or 0
find(s, pat, from) ==
    LET hits == {k \in from..(Len(s) - Len(pat) + 1) : SubSeq(s, k, k + Len(pat) - 1) = pat}
    IN IF hits = {} THEN 0 ELSE CHOOSE k \in hits : \A j \in hits : k <= j

\* (mutant of strip_block_comments: a comment runs to the last */ after its /*)
RECURSIVE strip_block_comments_greedy(_)
strip_block_comments_greedy(text) ==
    LET open == find(text, <<"/", "*">>, 1)
        closes == {k \in (open + 2)..(Len(text) - 1) : SubSeq(text, k, k + 1) = <<"*", "/">>}
        close == IF open = 0 \/ closes = {} THEN 0
                 ELSE CHOOSE k \in closes : \A j \in closes : j <= k
    IN IF open = 0 \/ close = 0 THEN text
       ELSE SubSeq(text, 1, open - 1)
            \o strip_block_comments_greedy(SubSeq(text, close + 2, Len(text)))

\* re.sub(r"/\*.*?\*/", "", text, flags=re.S): each comment runs from a /* to the
\* first */ after it; a /* that is never closed stays
RECURSIVE strip_block_comments(_)
strip_block_comments(text) ==
    LET open == find(text, <<"/", "*">>, 1)
        close == IF open = 0 THEN 0 ELSE find(text, <<"*", "/">>, open + 2)
    IN IF open = 0 \/ close = 0 THEN text
       ELSE SubSeq(text, 1, open - 1)
            \o strip_block_comments(SubSeq(text, close + 2, Len(text)))

line_breaks == {"\n", "\r"}

\* text.splitlines(): the lines without their line breaks (\n, \r or \r\n);
\* no empty last line after a final line break
RECURSIVE splitlines(_)
splitlines(text) ==
    IF text = <<>> THEN <<>>
    ELSE LET n == span(text, 1, line_breaks)
             brk == IF n + 2 <= Len(text) /\ text[n + 1] = "\r" /\ text[n + 2] = "\n"
                    THEN 2 ELSE 1
         IN IF n >= Len(text) THEN <<text>>
            ELSE <<SubSeq(text, 1, n)>> \o splitlines(SubSeq(text, n + brk + 1, Len(text)))

\* for ln in cleaned.splitlines(): bb.feed_line(ln), from the builder bb.  (The
\* stack is never empty; testing it has TLC evaluate bb before the next line.)
RECURSIVE feed_lines(_, _)
feed_lines(bb, lines) ==
    IF lines = <<>> \/ bb.stack = <<>> THEN bb
    ELSE feed_lines(feed_line(bb.blocks, bb.stack, Head(lines)), Tail(lines))

A2LModel(root) ==
    [project_name |-> None, module_name |-> None, protocol_layer |-> None, daq |-> None,
     daq_events |-> <<>>, xcp_on_can |-> None, memory_segments |-> <<>>, axis_pts |-> <<>>,
     measurements |-> <<>>, characteristics |-> <<>>, compu_methods |-> <<>>,
     compu_vtabs |-> <<>>, record_layouts |-> <<>>, groups |-> <<>>, functions |-> <<>>,
     raw_blocks |-> <<root>>]

\* the decoder called on every block of ids, in order
decode_each(bs, ids, Decoder(_, _)) == all_of([k \in 1..Len(ids) |-> Decoder(bs, ids[k])])

\* one pass of the loop over the IF_DATA children of the module, for the child ifd
if_data_pass(bs, ifd, model) ==
    IF bs[ifd].args # <<>> /\ bs[ifd].args[1] = kw.XCPplus
    THEN
    Bind(get_first_child(bs, ifd, kw.PROTOCOL_LAYER), LAMBDA pl :
    Bind(get_first_child(bs, ifd, kw.DAQ), LAMBDA dq :
    Bind(get_first_child(bs, ifd, kw.XCP_ON_CAN), LAMBDA xcp_can :
    Bind(IF pl # None THEN parse_protocol_layer(bs, pl[1]) ELSE Return(None), LAMBDA r1 :
    Bind(IF dq # None THEN parse_daq(bs, dq[1]) ELSE Return(None), LAMBDA r2 :
    Bind(IF xcp_can # None THEN parse_xcp_on_can(bs, xcp_can[1]) ELSE Return(None), LAMBDA r3 :
        IF ~r1.ok THEN r1
        ELSE IF ~r2.ok THEN r2
        ELSE IF ~r3.ok THEN r3
        ELSE Return([model EXCEPT
                !.protocol_layer = IF pl # None THEN Some(r1.val) ELSE @,
                !.daq = IF dq # None THEN Some(r2.val) ELSE @,
                !.daq_events = IF dq # None THEN r2.val.events ELSE @,
                !.xcp_on_can = IF xcp_can # None THEN Some(r3.val) ELSE @])))))))
    ELSE Return(model)

\* for ifd in mod.get_children("IF_DATA")
RECURSIVE if_data_loop(_, _, _)
if_data_loop(bs, ifds, model) ==
    IF ifds = <<>> THEN Return(model)
    ELSE Bind(if_data_pass(bs, Head(ifds), model), LAMBDA r :
             IF ~r.ok THEN r ELSE if_data_loop(bs, Tail(ifds), r.val))

\* the part of parse_text under `if mod:`
memory_segments_of(bs, mod_par) ==
    IF mod_par # None
    THEN decode_each(bs, get_children(bs, mod_par[1], kw.MEMORY_SEGMENT), parse_memory_segment)
    ELSE Return(<<>>)

\* the calls under `if mod:` in the order of the code
module_calls(bs, mod, model) ==
    <<if_data_loop(bs, get_children(bs, mod, kw.IF_DATA), model),
      memory_segments_of(bs, get_first_child(bs, mod, kw.MOD_PAR)),
      decode_each(bs, get_children(bs, mod, kw.AXIS_PTS), parse_axis_pts),
      decode_each(bs, get_children(bs, mod, kw.MEASUREMENT), parse_measurement),
      decode_each(bs, get_children(bs, mod, kw.CHARACTERISTIC), parse_characteristic),
      decode_each(bs, get_children(bs, mod, kw.COMPU_METHOD), parse_compu_method),
      decode_each(bs, get_children(bs, mod, kw.COMPU_VTAB), parse_compu_vtab),
      decode_each(bs, get_children(bs, mod, kw.RECORD_LAYOUT), parse_record_layout),
      decode_each(bs, get_children(bs, mod, kw.GROUP), parse_group),
      decode_each(bs, get_children(bs, mod, kw.FUNCTION), parse_function)>>

\* the first call that raises ends parse_text; otherwise the model has what each returned
module_model(calls, failed) ==
    IF failed # <<>> THEN Raised(failed[1].exc)
    ELSE Return([calls[1].val EXCEPT
            !.memory_segments = calls[2].val, !.axis_pts = calls[3].val,
            !.measurements = calls[4].val, !.characteristics = calls[5].val,
            !.compu_methods = calls[6].val, !.compu_vtabs = calls[7].val,
            !.record_layouts = calls[8].val, !.groups = calls[9].val,
            !.functions = calls[10].val])

decoded_calls(calls) == module_model(calls, SelectSeq(calls, LAMBDA r : ~r.ok))

decode_module(bs, mod, model) == decoded_calls(module_calls(bs, mod, model))

\* proj = root.get_first_child("PROJECT") and mod = proj.get_first_child("MODULE")
project_of(bs) == get_first_child(bs, 1, kw.PROJECT)

module_of(bs, proj) == IF proj # None THEN get_first_child(bs, proj[1], kw_MODULE) ELSE None

\* A2LModel(root=root) with project_name and module_name set from the header arguments
named_model(bs, proj, mod) ==
    [A2LModel(1) EXCEPT
        !.project_name = IF proj # None /\ bs[proj[1]].args # <<>>
                         THEN Some(bs[proj[1]].args[1]) ELSE @,
        !.module_name = IF mod # None /\ bs[mod[1]].args # <<>>
                        THEN Some(bs[mod[1]].args[1]) ELSE @]

\* parse_text from `root = bb.get_root()` on, for the tree bs of the builder
assemble(bs) ==
    Bind(project_of(bs), LAMBDA proj :
    Bind(module_of(bs, proj), LAMBDA mod :
        IF mod # None THEN decode_module(bs, mod[1], named_model(bs, proj, mod))
        ELSE Return(named_model(bs, proj, mod))))

parse_text(text) ==
    assemble(feed_lines(builder_init, splitlines(strip_block_comments(text))).blocks)

-----------------------------------------------------------------------------
(* The lexical splitter called on one line (specification SpecTokenize) *)

BoundedSeqs(S, n) == UNION {[1..k -> S] : k \in 0..n}

\* no builder runs in the specifications that call one function
no_call == [call |-> "none"]
called(f) == [call |-> f]

\* the longest line handed to tokenize_line
MaxLineLen == 3

\* the characters its lines are made of: a word character, a blank, both quotes, the escape
TokenChars == {"a", " ", "\"", "'", "\\"}

InitTokenize ==
    /\ blocks = <<>>
    /\ stack = <<>>
    /\ hist = no_call
    /\ input \in BoundedSeqs(TokenChars, MaxLineLen)
    /\ pc = "call"
    /\ result = None

CallTokenizeLine ==
    /\ pc = "call"
    /\ result' = tokenize_line(input)
    /\ pc' = "done"
    /\ hist' = called("tokenize_line")
    /\ UNCHANGED <<blocks, stack, input>>

SpecTokenize == InitTokenize /\ [][CallTokenizeLine]_vars

\* C2: tokenize_line never fails; on a line with unbalanced quotes (one shlex.split
\* rejects) it returns the naive whitespace split of the line.
C2_TokenizeNeverFails ==
    pc = "done" =>
        /\ result.ok
        /\ ~shlex_split(input).ok => result.toks = split(input)

-----------------------------------------------------------------------------
(* parse_daq_event called on one EVENT block (specification SpecDaqEvent) *)

\* the most content lines of the EVENT block
MaxEventLines == 2

\* "MyEvent" "MyEv" 3 DAQ 5 10 1 0
ScenarioEventLine == <<"\"","M","y","E","v","e","n","t","\""," ","\"","M","y","E","v","\""," ","3"," ","D","A","Q"," ","5"," ","1","0"," ","1"," ","0">>

\* the content lines an EVENT block draws from: the scenario line and its pieces,
\*   "MyEvent"    "MyEv" 3    DAQ    5 10 1 0    STIM 1 2 3
\* a token that is quoted twice ('"Q"' 0x1F), a blank line, and an unbalanced quote ("a b)
EventLines == {
    ScenarioEventLine, <<"\"","M","y","E","v","e","n","t","\"">>, <<"\"","M","y","E","v","\""," ","3">>, <<"D","A","Q">>, <<"5"," ","1","0"," ","1"," ","0">>, <<"S","T","I","M"," ","1"," ","2"," ","3">>,
    <<"'","\"","Q","\"","'"," ","0","x","1","F">>, <<" ">>, <<"\"","a"," ","b">> }

OneBlock(name, args, lines) ==
    <<[name |-> name, args |-> args, lines |-> lines, children |-> <<>>]>>

InitDaqEvent ==
    /\ blocks \in {OneBlock(kw.EVENT, <<>>, ls) : ls \in BoundedSeqs(EventLines, MaxEventLines)}
    /\ stack = <<>>
    /\ hist = no_call
    /\ input = None
    /\ pc = "call"
    /\ result = None

CallParseDaqEvent ==
    /\ pc = "call"
    /\ result' = parse_daq_event(blocks, 1)
    /\ pc' = "done"
    /\ hist' = called("parse_daq_event")
    /\ UNCHANGED <<blocks, stack, input>>

SpecDaqEvent == InitDaqEvent /\ [][CallParseDaqEvent]_vars

\* the contents of the double-quoted spans "..." of a text, in order
RECURSIVE dq_spans(_, _, _, _)
dq_spans(s, open, cur, out) ==
    IF s = <<>> THEN out
    ELSE IF Head(s) = "\""
         THEN IF open THEN dq_spans(Tail(s), FALSE, <<>>, Append(out, cur))
              ELSE dq_spans(Tail(s), TRUE, <<>>, out)
         ELSE dq_spans(Tail(s), open, IF open THEN Append(cur, Head(s)) ELSE cur, out)

\* the double-quoted tokens of the content lines of a block, in order
dq_tokens(lines) == Flatten([k \in 1..Len(lines) |-> dq_spans(lines[k], FALSE, <<>>, <<>>)])

\* C1: parse_daq_event sets name to the content of the first double-quoted token of
\* the block's content lines and short_name to the content of the second one; the
\* block "MyEvent" "MyEv" 3 DAQ 5 10 1 0 yields name=MyEvent, short_name=MyEv,
\* event_channel_number=3, type=DAQ, max_daq_list=5, cycle=10, time_unit=1, priority=0.
C1_EventNames ==
    (pc = "done" /\ result.ok) =>
        LET q == dq_tokens(blocks[1].lines) IN
        /\ Len(q) >= 1 => result.val.name = q[1]
        /\ Len(q) >= 2 => result.val.short_name = Some(q[2])
        /\ blocks[1].lines = <<ScenarioEventLine>> =>
              /\ result.val.name = <<"M","y","E","v","e","n","t">>
              /\ result.val.short_name = Some(<<"M","y","E","v">>)
              /\ result.val.event_channel_number = Some(3)
              /\ result.val.type = Some(kw.DAQ)
              /\ result.val.max_daq_list = Some(5)
              /\ result.val.cycle = Some(10)
              /\ result.val.time_unit = Some(1)
              /\ result.val.priority = Some(0)

-----------------------------------------------------------------------------
(* parse_compu_method and parse_compu_vtab called on one block             *)
(* (specification SpecCompu)                                               *)

Prefixes(s) == {SubSeq(s, 1, k) : k \in 0..Len(s)}

\* the most lines that follow the third line of a COMPU_VTAB block
MaxEntryLines == 3

\* a COMPU_VTAB block is a prefix of: "d e" / TAB_VERB / a third line / entry lines
\* third lines:  2    1 x    0    -1    x  (not a number)
\* entry lines:  0 "OFF"    1 "ON"    x "Y"  (no integer)    3 '"a" b'  (quotes kept)
\*               "u  (unbalanced quote)    and a blank line
VtabThirdLines == {<<"2">>, <<"1"," ","x">>, <<"0">>, <<"-","1">>, <<"x">>}
VtabEntryLines == {<<"0"," ","\"","O","F","F","\"">>, <<"1"," ","\"","O","N","\"">>, <<"x"," ","\"","Y","\"">>, <<"3"," ","'","\"","a","\""," ","b","'">>, <<"\"","u">>, <<" ">>}
VtabContents ==
    UNION {Prefixes(<<<<"\"","d"," ","e","\"">>, <<"T","A","B","_","V","E","R","B">>, third>> \o tail) :
              third \in VtabThirdLines, tail \in BoundedSeqs(VtabEntryLines, MaxEntryLines)}

\* a COMPU_METHOD block is a prefix of
\*   "d e" / RAT_FUNC / "%6.2" / "u" / COEFFS 0 1 2.5 x / coeffs -1e2
MethodContents ==
    Prefixes(<<<<"\"","d"," ","e","\"">>, <<"R","A","T","_","F","U","N","C">>, <<"\"","%","6",".","2","\"">>, <<"\"","u","\"">>, <<"C","O","E","F","F","S"," ","0"," ","1"," ","2",".","5"," ","x">>, <<"c","o","e","f","f","s"," ","-","1","e","2">>>>)

InitCompu ==
    /\ blocks \in {OneBlock(kw.COMPU_VTAB, <<<<"T">>>>, ls) : ls \in VtabContents}
                  \cup {OneBlock(kw.COMPU_METHOD, <<<<"M">>>>, ls) : ls \in MethodContents}
    /\ stack = <<>>
    /\ hist = no_call
    /\ input = None
    /\ pc = "call"
    /\ result = None

CallParseCompuMethod ==
    /\ pc = "call"
    /\ blocks[1].name = kw.COMPU_METHOD
    /\ result' = parse_compu_method(blocks, 1)
    /\ pc' = "done"
    /\ hist' = called("parse_compu_method")
    /\ UNCHANGED <<blocks, stack, input>>

CallParseCompuVtab ==
    /\ pc = "call"
    /\ blocks[1].name = kw.COMPU_VTAB
    /\ result' = parse_compu_vtab(blocks, 1)
    /\ pc' = "done"
    /\ hist' = called("parse_compu_vtab")
    /\ UNCHANGED <<blocks, stack, input>>

NextCompu == CallParseCompuMethod \/ CallParseCompuVtab

SpecCompu == InitCompu /\ [][NextCompu]_vars

\* every line of the sequence can be split (no unbalanced quote, no dangling escape)
AllSplit(lines) == \A k \in 1..Len(lines) : tokenize_line(lines[k]).ok

\* C3: a decoder returns an entity, never an error outcome, for every block whose
\* non-blank content lines are fewer than its positional schema (none or one line
\* included); in particular parse_compu_method and parse_compu_vtab given a block
\* with exactly one content line.
C3_ShortBlocks ==
    (pc = "done" /\ AllSplit(blocks[1].lines)) => result.ok

\* the non-blank content lines of the block the decoder was called on
TheLines == nonblank(blocks[1].lines)

\* the third non-blank line of the COMPU_VTAB block starts with an integer token
CountedTable ==
    /\ Len(TheLines) >= 3
    /\ AllSplit(SubSeq(TheLines, 1, 3))
    /\ is_int_token(tokenize_line(TheLines[3]).toks[1])

TheCount == int_of(tokenize_line(TheLines[3]).toks[1])

\* the next TheCount non-blank lines (fewer when the block ends before)
CountedLines ==
    SubSeq(TheLines, 4, IF 3 + TheCount <= Len(TheLines) THEN 3 + TheCount ELSE Len(TheLines))

starts_with_int(line) == is_int_token(tokenize_line(line).toks[1])

\* the entry of a line: its integer first token, and the remaining tokens joined
\* (one layer of enclosing quotes and outer double quotes removed)
entry_of_line(line) ==
    LET tt == tokenize_line(line).toks
    IN <<int_of(tt[1]), strip_dq(unquote(join(Tail(tt))))>>

GreedyTable ==
    /\ Len(TheLines) >= 3
    /\ AllSplit(TheLines)
    /\ LET t == tokenize_line(TheLines[3]).toks IN t = <<>> \/ ~is_int_token(t[1])

\* the lines after the third line
GreedyLines == SubSeq(TheLines, 4, Len(TheLines))

\* the longest prefix of the lines in which every line starts with an integer
RECURSIVE parsing_prefix(_)
parsing_prefix(lines) ==
    IF lines = <<>> \/ ~starts_with_int(Head(lines)) THEN <<>>
    ELSE <<Head(lines)>> \o parsing_prefix(Tail(lines))

\* the entry of a line in the uncounted mode: its integer first token, and the
\* remaining tokens joined (one layer of enclosing quotes removed)
greedy_entry_of_line(line) ==
    LET tt == tokenize_line(line).toks
    IN <<int_of(tt[1]), unquote(join(Tail(tt)))>>

\* C11: when the token after the table-type line is not numeric, parse_compu_vtab
\* consumes (integer, verbal-string) lines and stops at the first line that is not
\* one: the entries are those of the lines before the first such line, and no line
\* after it contributes an entry.
C11_GreedyStopsAtFirstFailure ==
    (pc = "done" /\ hist.call = "parse_compu_vtab" /\ GreedyTable) =>
        /\ result.ok
        /\ result.val.entries = Map(parsing_prefix(GreedyLines), greedy_entry_of_line)

-----------------------------------------------------------------------------
(* parse_memory_segment called on one MEMORY_SEGMENT block (specification
   SpecMemSeg) *)

MaxSegmentLines == 3
ScenarioSegmentLines == <<<<"R","A","M"," ","F","L","A","S","H">>, <<"I","N","T","E","R","N"," ","0","x","1","0","0","0"," ","2","5","6"," ","-","1"," ","-","1">>>>
SegmentLines ==
    {<<"R","A","M"," ","F","L","A","S","H">>, <<"I","N","T","E","R","N"," ","0","x","1","0","0","0"," ","2","5","6"," ","-","1"," ","-","1">>, <<"I","N","T","E","R","N"," ","a","b","c"," ","2","5","6"," ","-","1">>,
     <<" ","E","X","T","E","R","N"," ","0","x","2","0","0","0"," ","5","1","2"," ","7","\n">>, <<"I","N","T","E","R","N"," ","5">>, <<"D","A","T","A">>, <<" ">>, <<"\"","u">>}

\* the block alone, or with an IF_DATA XCPplus child that holds a SEGMENT
SegmentTrees(ls) ==
    { OneBlock(kw.MEMORY_SEGMENT, <<<<"S","e","g">>>>, ls),
      <<[name |-> kw.MEMORY_SEGMENT, args |-> <<<<"S","e","g">>, <<"\"","a">>, <<"b","\"">>>>, lines |-> ls,
         children |-> <<2>>],
        [name |-> kw.IF_DATA, args |-> <<kw.XCPplus>>, lines |-> <<>>, children |-> <<3>>],
        [name |-> kw.XCPplus, args |-> <<>>, lines |-> <<>>, children |-> <<4>>],
        [name |-> kw.SEGMENT, args |-> <<>>, lines |-> <<<<"0"," ","2"," ","0">>, <<"0"," ","0">>>>,
         children |-> <<5, 6>>],
        [name |-> kw.CHECKSUM, args |-> <<>>, lines |-> <<<<" ">>, <<"X","C","P","_","A","D","D","_","4","4"," ","x">>>>,
         children |-> <<>>],
        [name |-> kw.PAGE, args |-> <<>>, lines |-> <<<<"1"," ","E","C","U","_","A","C","C","E","S","S","_","D","O","N","T","_","C","A","R","E">>>>,
         children |-> <<>>]>> }

InitMemSeg ==
    /\ blocks \in UNION {SegmentTrees(ls) : ls \in BoundedSeqs(SegmentLines, MaxSegmentLines)}
    /\ stack = <<>>
    /\ hist = no_call
    /\ input = None
    /\ pc = "call"
    /\ result = None

CallParseMemorySegment ==
    /\ pc = "call"
    /\ result' = parse_memory_segment(blocks, 1)
    /\ pc' = "done"
    /\ hist' = called("parse_memory_segment")
    /\ UNCHANGED <<blocks, stack, input>>

SpecMemSeg == InitMemSeg /\ [][CallParseMemorySegment]_vars

\* the content lines of the block that begin with INTERN or EXTERN and have at
\* least three tokens, as token lists, in source order
access_lines(lines) ==
    LET toks == [k \in 1..Len(lines) |-> tokenize_line(strip(lines[k])).toks]
        shaped(tt) == Len(tt) >= 3 /\ tt[1] \in {kw.INTERN, kw.EXTERN}
    IN Filter(toks, shaped)

\* C9: parse_memory_segment takes address, size and attributes from the first
\* content line that begins with INTERN or EXTERN and has at least three tokens
\* (address = integer of token 2, size = integer of token 3, attributes = the
\* remaining tokens), whatever lines of that shape follow it and also when its
\* address token does not parse as an integer; and the scenario lines
\* RAM FLASH, INTERN 0x1000 256 -1 -1 give RAM, FLASH, 4096, 256, <<-1, -1>>.
C9_FirstAccessLine ==
    (pc = "done" /\ result.ok) =>
        /\ access_lines(blocks[1].lines) # <<>> =>
              LET first == Head(access_lines(blocks[1].lines)) IN
              /\ result.val.address = to_int(first[2])
              /\ result.val.size = to_int(first[3])
              /\ result.val.attributes = SubSeq(first, 4, Len(first))
        /\ blocks[1].lines = ScenarioSegmentLines =>
              /\ result.val.class_type = Some(<<"R","A","M">>)
              /\ result.val.memory_type = Some(<<"F","L","A","S","H">>)
              /\ result.val.address = Some(4096)
              /\ result.val.size = Some(256)
              /\ result.val.attributes = <<<<"-","1">>, <<"-","1">>>>

-----------------------------------------------------------------------------
(* A2LParser.parse_text run on one document (specification SpecParse): the
   comments are stripped and the text is split into lines, the lines are fed
   to a fresh builder one by one, and the model is assembled from the tree.
   input holds the text, its cleaned lines and the number of lines fed.     *)

\* the most items one module holds
MaxItems == 2

\* what a module may hold: blocks of the eight entity kinds (one opened by a
\* lower-case keyword with its name in the body, one nested in another, one with
\* a comment on its begin line), a lookup table of one content line, two XCPplus
\* IF_DATA blocks, a MOD_PAR block, and the end of the module followed by the
\* begin of a second one
ModuleItems == {
    <<<<"/","b","e","g","i","n"," ","M","E","A","S","U","R","E","M","E","N","T"," ","a"," ","/","*"," ","s","8"," ","*","/">>, <<"\"","d","\"">>, <<"/","e","n","d"," ","M","E","A","S","U","R","E","M","E","N","T">>>>,
    <<<<"/","b","e","g","i","n"," ","m","e","a","s","u","r","e","m","e","n","t">>, <<"b">>, <<"/","b","e","g","i","n"," ","M","E","A","S","U","R","E","M","E","N","T"," ","n">>, <<"/","e","n","d">>, <<"/","e","n","d">>>>,
    <<<<"/","b","e","g","i","n"," ","A","X","I","S","_","P","T","S"," ","x">>, <<"/","e","n","d">>, <<"/","b","e","g","i","n"," ","C","H","A","R","A","C","T","E","R","I","S","T","I","C"," ","c">>, <<"\"","d","\""," ","/","*"," ","t","w","o">>, <<"l","i","n","e","s"," ","*","/"," ","M","A","P">>, <<"/","e","n","d">>>>,
    <<<<"/","b","e","g","i","n"," ","C","O","M","P","U","_","M","E","T","H","O","D"," ","c","m">>, <<"/","e","n","d">>, <<"/","b","e","g","i","n"," ","C","O","M","P","U","_","V","T","A","B"," ","t">>, <<"/","e","n","d">>>>,
    <<<<"/","b","e","g","i","n"," ","R","E","C","O","R","D","_","L","A","Y","O","U","T"," ","r">>, <<"F","N","C"," ","1">>, <<"/","e","n","d">>, <<"/","b","e","g","i","n"," ","G","R","O","U","P"," ","g">>, <<"/","b","e","g","i","n"," ","R","E","F","_","M","E","A","S","U","R","E","M","E","N","T">>, <<"a">>, <<"/","e","n","d">>, <<"/","e","n","d">>, <<"/","b","e","g","i","n"," ","F","U","N","C","T","I","O","N"," ","f">>, <<"/","e","n","d">>>>,
    <<<<"/","b","e","g","i","n"," ","C","O","M","P","U","_","V","T","A","B"," ","t","2">>, <<"x">>, <<"/","e","n","d">>>>,
    <<<<"/","b","e","g","i","n"," ","I","F","_","D","A","T","A"," ","X","C","P","p","l","u","s">>, <<"/","b","e","g","i","n"," ","P","R","O","T","O","C","O","L","_","L","A","Y","E","R">>, <<"1"," ","2">>, <<"/","e","n","d">>, <<"/","b","e","g","i","n"," ","X","C","P","_","O","N","_","C","A","N">>, <<"S","J","W"," ","2">>, <<"/","e","n","d">>, <<"/","e","n","d">>>>,
    <<<<"/","b","e","g","i","n"," ","I","F","_","D","A","T","A"," ","X","C","P","p","l","u","s">>, <<"/","b","e","g","i","n"," ","P","R","O","T","O","C","O","L","_","L","A","Y","E","R">>, <<"9">>, <<"/","e","n","d">>, <<"/","b","e","g","i","n"," ","D","A","Q">>, <<"S","T","A","T","I","C">>, <<"/","e","n","d">>, <<"/","e","n","d">>>>,
    <<<<"/","b","e","g","i","n"," ","M","O","D","_","P","A","R">>, <<"/","b","e","g","i","n"," ","M","E","M","O","R","Y","_","S","E","G","M","E","N","T"," ","s">>, <<"I","N","T","E","R","N"," ","1"," ","2">>, <<"/","e","n","d">>, <<"/","e","n","d">>>>,
    <<<<"/","e","n","d"," ","M","O","D","U","L","E">>, <<"/","b","e","g","i","n"," ","M","O","D","U","L","E"," ","M","2">>>> }

\* the text of a sequence of lines, each ended by a line feed
text_of(lines) == Flatten([k \in 1..Len(lines) |-> Append(lines[k], "\n")])

\* a project with a module that holds the items, or a project that holds them
\* directly
Documents(items) ==
    { text_of(<<<<"/","b","e","g","i","n"," ","P","R","O","J","E","C","T"," ","P"," ","\"","d","e","m","o","\"">>, <<"/","b","e","g","i","n"," ","M","O","D","U","L","E"," ","M">>>> \o Flatten(items)
              \o <<<<"/","e","n","d"," ","M","O","D","U","L","E">>, <<"/","e","n","d"," ","P","R","O","J","E","C","T">>>>),
      text_of(<<<<"/","b","e","g","i","n"," ","P","R","O","J","E","C","T">>>> \o Flatten(items) \o <<<<"/","e","n","d"," ","P","R","O","J","E","C","T">>>>) }

InitParse ==
    /\ input \in {[text |-> text, lines |-> <<>>, fed |-> 0] :
                    text \in UNION {Documents(items) : items \in BoundedSeqs(ModuleItems, MaxItems)}}
    /\ blocks = builder_init.blocks
    /\ stack = builder_init.stack
    /\ hist = hist_init
    /\ pc = "clean"
    /\ result = None

\* cleaned = strip_block_comments(text); cleaned.splitlines()
Clean ==
    /\ pc = "clean"
    /\ input' = [input EXCEPT !.lines = splitlines(strip_block_comments(input.text))]
    /\ pc' = "feed"
    /\ UNCHANGED <<blocks, stack, hist, result>>

\* one pass of the loop: bb.feed_line(ln)
FeedNext ==
    /\ pc = "feed"
    /\ input.fed < Len(input.lines)
    /\ Feed(input.lines[input.fed + 1])
    /\ input' = [input EXCEPT !.fed = @ + 1]
    /\ UNCHANGED <<pc, result>>

\* the rest of parse_text, after the loop
Assemble ==
    /\ pc = "feed"
    /\ input.fed = Len(input.lines)
    /\ result' = assemble(blocks)
    /\ pc' = "done"
    /\ UNCHANGED <<blocks, stack, hist, input>>

NextParse == Clean \/ FeedNext \/ Assemble

SpecParse == InitParse /\ [][NextParse]_vars

\* the blocks opened while block p was on top of the stack whose name is K in
\* any case, in the order of their begin lines
OpenedUnder(p, K) ==
    SelectSeq([b \in 1..Len(blocks) |-> b],
              LAMBDA b : hist.parent[b] = p /\ upper(blocks[b].name) = K)

\* the module of the project: the first MODULE block opened directly under the
\* first PROJECT block opened at the top level; 0 when there is none
TheModule ==
    LET projects == OpenedUnder(1, kw.PROJECT)
        modules == IF projects = <<>> THEN <<>> ELSE OpenedUnder(projects[1], kw_MODULE)
    IN IF modules = <<>> THEN 0 ELSE modules[1]

\* the decodings of the K blocks opened directly under the module, in order
Decodings(K, Decoder(_, _)) ==
    LET ids == IF TheModule = 0 THEN <<>> ELSE OpenedUnder(TheModule, K)
    IN [i \in 1..Len(ids) |-> Decoder(blocks, ids[i]).val]

FirstChildDecoded(b, K, Decoder(_, _)) ==
    LET kids == OpenedUnder(b, K)
    IN IF kids = <<>> THEN None ELSE Some(Decoder(blocks, kids[1]).val)

\* the IF_DATA blocks directly under the module whose first argument is XCPplus
XcpBlocks ==
    IF TheModule = 0 THEN <<>>
    ELSE SelectSeq(OpenedUnder(TheModule, kw.IF_DATA),
                   LAMBDA b : blocks[b].args # <<>> /\ blocks[b].args[1] = kw.XCPplus)

\* C8: when the module has XCPplus IF_DATA blocks, protocol_layer, daq (with
\* daq_events) and xcp_on_can of the model are decoded from the first of them in
\* source order only; a later one changes none of the three.
C8_FirstXcpBlockOnly ==
    (pc = "done" /\ result.ok /\ XcpBlocks # <<>>) =>
        LET first == XcpBlocks[1]
            daq == FirstChildDecoded(first, kw.DAQ, parse_daq)
        IN /\ result.val.protocol_layer
                 = FirstChildDecoded(first, kw.PROTOCOL_LAYER, parse_protocol_layer)
           /\ result.val.daq = daq
           /\ result.val.daq_events = IF daq = None THEN <<>> ELSE daq[1].events
           /\ result.val.xcp_on_can = FirstChildDecoded(first, kw.XCP_ON_CAN, parse_xcp_on_can)

-----------------------------------------------------------------------------
(* parse_protocol_layer called on one PROTOCOL_LAYER block (specification
   SpecLayer) *)

\* the most content lines of the PROTOCOL_LAYER block
MaxLayerLines == 3

\* content lines: a version and two integers, three integers, one integer, a word
\* before an integer, the byte order before an integer, an optional command, the
\* MASTER pair, and a blank line
LayerLines ==
    {<<"0","x","0","1","0","0"," ","1"," ","2">>, <<"3"," ","4"," ","5">>, <<"7">>, <<"x"," ","8">>,
     <<"B","Y","T","E","_","O","R","D","E","R","_","M","S","B","_","L","A","S","T"," ","9">>,
     <<"O","P","T","I","O","N","A","L","_","C","M","D"," ","G","E","T","_","I","D">>,
     <<"M","A","S","T","E","R"," ","1"," ","2">>, <<" ">>}

InitLayer ==
    /\ blocks \in {OneBlock(kw.PROTOCOL_LAYER, <<>>, ls) : ls \in BoundedSeqs(LayerLines, MaxLayerLines)}
    /\ stack = <<>>
    /\ hist = no_call
    /\ input = None
    /\ pc = "call"
    /\ result = None

CallParseProtocolLayer ==
    /\ pc = "call"
    /\ result' = parse_protocol_layer(blocks, 1)
    /\ pc' = "done"
    /\ hist' = called("parse_protocol_layer")
    /\ UNCHANGED <<blocks, stack, input>>

SpecLayer == InitLayer /\ [][CallParseProtocolLayer]_vars

\* the tokens of the block, line after line
LayerFlat == Flatten(tokenize_lines(blocks[1].lines).toks)

\* the longest prefix of the tokens in which every token is an integer
RECURSIVE integer_run(_)
integer_run(toks) ==
    IF toks = <<>> \/ ~is_int_token(Head(toks)) THEN <<>>
    ELSE <<int_of(Head(toks))>> \o integer_run(Tail(toks))

\* the run of integer tokens that follows the optional leading version integer
TimingRun ==
    IF LayerFlat # <<>> /\ is_int_token(LayerFlat[1]) THEN integer_run(Tail(LayerFlat))
    ELSE integer_run(LayerFlat)

\* C12: timing_values is the run of integer tokens that follows the optional
\* leading version integer, ending at the first token that is not an integer (a
\* stopping keyword included); max_cto and max_dto are the third-from-last and the
\* second-from-last of timing_values exactly when it has at least three elements,
\* and are absent otherwise.
C12_TimingAndLimits ==
    (pc = "done" /\ hist.call = "parse_protocol_layer" /\ result.ok) =>
        LET tv == result.val.timing_values IN
        /\ tv = TimingRun
        /\ IF Len(tv) >= 3
           THEN /\ result.val.max_cto = Some(tv[Len(tv) - 2])
                /\ result.val.max_dto = Some(tv[Len(tv) - 1])
           ELSE /\ result.val.max_cto = None
                /\ result.val.max_dto = None

-----------------------------------------------------------------------------
(* parse_xcp_on_can called on one XCP_ON_CAN block, alone or with a CAN_FD
   child (specification SpecXcp) *)

\* the most content lines of the XCP_ON_CAN block and of its CAN_FD child
MaxXcpLines == 2

\* content lines: the keyword alone, the keyword alone between blanks, the keyword
\* with a value, the keyword in lower case with a value, a version, two other keys
\* with a value, and a blank line
XcpLines ==
    {<<"M","A","X","_","D","L","C","_","R","E","Q","U","I","R","E","D">>,
     <<" ","M","A","X","_","D","L","C","_","R","E","Q","U","I","R","E","D"," ">>,
     <<"M","A","X","_","D","L","C","_","R","E","Q","U","I","R","E","D"," ","1">>,
     <<"m","a","x","_","d","l","c","_","r","e","q","u","i","r","e","d"," ","1">>,
     <<"0","x","0","1","0","0">>,
     <<"S","A","M","P","L","E","_","P","O","I","N","T"," ","7","5">>,
     <<"M","A","X","_","D","L","C"," ","8">>,
     <<" ">>}

\* the block alone, or with a CAN_FD child
XcpTrees(ls, fd) ==
    { OneBlock(kw.XCP_ON_CAN, <<>>, ls),
      <<[name |-> kw.XCP_ON_CAN, args |-> <<>>, lines |-> ls, children |-> <<2>>],
        [name |-> kw.CAN_FD, args |-> <<>>, lines |-> fd, children |-> <<>>]>> }

InitXcp ==
    /\ blocks \in UNION {XcpTrees(ls, fd) : ls \in BoundedSeqs(XcpLines, MaxXcpLines),
                                            fd \in BoundedSeqs(XcpLines, MaxXcpLines)}
    /\ stack = <<>>
    /\ hist = no_call
    /\ input = None
    /\ pc = "call"
    /\ result = None

CallParseXcpOnCan ==
    /\ pc = "call"
    /\ result' = parse_xcp_on_can(blocks, 1)
    /\ pc' = "done"
    /\ hist' = called("parse_xcp_on_can")
    /\ UNCHANGED <<blocks, stack, input>>

SpecXcp == InitXcp /\ [][CallParseXcpOnCan]_vars

\* a content line consists of the keyword MAX_DLC_REQUIRED alone
KeywordAlone(lines) ==
    \E k \in 1..Len(lines) : strip(lines[k]) = <<"M","A","X","_","D","L","C","_","R","E","Q","U","I","R","E","D">>

\* the keyword MAX_DLC_REQUIRED is a token of no content line
KeywordAbsent(lines) ==
    \A k \in 1..Len(lines) :
        \A j \in 1..Len(split(lines[k])) :
            split(lines[k])[j] # <<"M","A","X","_","D","L","C","_","R","E","Q","U","I","R","E","D">>

\* C13: max_dlc_required of parse_xcp_on_can, and of parse_can_fd for the CAN_FD
\* child, is true whenever a content line of the block is the keyword
\* MAX_DLC_REQUIRED alone with no value after it, and false when the keyword is on
\* no line of the block.
C13_FlagByPresence ==
    (pc = "done" /\ hist.call = "parse_xcp_on_can" /\ result.ok) =>
        /\ KeywordAlone(blocks[1].lines) => result.val.max_dlc_required
        /\ KeywordAbsent(blocks[1].lines) => ~result.val.max_dlc_required
        /\ Len(blocks) > 1 =>
            /\ result.val.can_fd # None
            /\ KeywordAlone(blocks[2].lines) => result.val.can_fd[1].max_dlc_required
            /\ KeywordAbsent(blocks[2].lines) => ~result.val.can_fd[1].max_dlc_required

-----------------------------------------------------------------------------
(* The nine decoders of named entities called on one block whose begin line
   has no arguments (specification SpecNamed) *)

\* the content of the block: a name line, a description and positional fields
NamedSchema ==
    <<<<"N"," ","x">>, <<"\"","d"," ","e","\"">>, <<"T">>, <<"0","x","1","0">>, <<"R","L">>, <<"1">>, <<"C","M">>, <<"8">>,
      <<"0">>, <<"9">>>>

\* the most content lines of the block (the whole schema)
MaxNamedLines == 10

\* a prefix of the schema, as it is or after a blank line
NamedContents ==
    UNION {{SubSeq(NamedSchema, 1, k), <<<<" ">>>> \o SubSeq(NamedSchema, 1, k)} :
              k \in {n \in 0..MaxNamedLines : n <= Len(NamedSchema)}}

NamedKinds ==
    {kw.MEMORY_SEGMENT, kw.AXIS_PTS, kw.MEASUREMENT, kw.CHARACTERISTIC, kw.COMPU_METHOD,
     kw.COMPU_VTAB, kw.RECORD_LAYOUT, kw.GROUP, kw.FUNCTION}

InitNamed ==
    /\ blocks \in {OneBlock(k, <<>>, ls) : k \in NamedKinds, ls \in NamedContents}
    /\ stack = <<>>
    /\ hist = no_call
    /\ input = None
    /\ pc = "call"
    /\ result = None

\* the decoder parse_text calls for a block of the kind
decoder_of(bs, b) ==
    CASE bs[b].name = kw.MEMORY_SEGMENT -> parse_memory_segment(bs, b)
      [] bs[b].name = kw.AXIS_PTS -> parse_axis_pts(bs, b)
      [] bs[b].name = kw.MEASUREMENT -> parse_measurement(bs, b)
      [] bs[b].name = kw.CHARACTERISTIC -> parse_characteristic(bs, b)
      [] bs[b].name = kw.COMPU_METHOD -> parse_compu_method(bs, b)
      [] bs[b].name = kw.COMPU_VTAB -> parse_compu_vtab(bs, b)
      [] bs[b].name = kw.RECORD_LAYOUT -> parse_record_layout(bs, b)
      [] bs[b].name = kw.GROUP -> parse_group(bs, b)
      [] bs[b].name = kw.FUNCTION -> parse_function(bs, b)

CallDecoder ==
    /\ pc = "call"
    /\ result' = decoder_of(blocks, 1)
    /\ pc' = "done"
    /\ hist' = called(blocks[1].name)
    /\ UNCHANGED <<blocks, stack, input>>

SpecNamed == InitNamed /\ [][CallDecoder]_vars

\* the kinds whose entity has a description as its first positional field
DescribedKinds == NamedKinds \ {kw.MEMORY_SEGMENT, kw.RECORD_LAYOUT}

\* C14: every decoder of a named entity, given a block with no header arguments,
\* takes the name from the first token of the first non-empty content line and
\* decodes the positional fields from the following line on (the description, for
\* the entities that have one, is the second non-empty line).
C14_NameFromFirstLine ==
    (pc = "done" /\ result.ok /\ blocks[1].args = <<>> /\ TheLines # <<>>) =>
        /\ result.val.name = tokenize_line(TheLines[1]).toks[1]
        /\ (blocks[1].name \in DescribedKinds /\ Len(TheLines) >= 2) =>
                result.val.description = unquote(join(tokenize_line(TheLines[2]).toks))

-----------------------------------------------------------------------------
(* strip_block_comments called on one text (specification SpecStrip) *)

\* the longest text
MaxTextLen == 7

\* the characters of the texts: the two characters of the delimiters, a line
\* break and a letter
TextChars == {"/", "*", "\n", "a"}

\* A /* B\nC */ D
ScenarioText == <<"A"," ","/","*"," ","B","\n","C"," ","*","/"," ","D">>

InitStrip ==
    /\ input \in BoundedSeqs(TextChars, MaxTextLen) \cup {ScenarioText}
    /\ blocks = <<>>
    /\ stack = <<>>
    /\ hist = no_call
    /\ pc = "call"
    /\ result = None

CallStripBlockComments ==
    /\ pc = "call"
    /\ result' = strip_block_comments(input)
    /\ pc' = "done"
    /\ hist' = called("strip_block_comments")
    /\ UNCHANGED <<blocks, stack, input>>

SpecStrip == InitStrip /\ [][CallStripBlockComments]_vars

\* the positions after a /* at position i where a */ starts
ClosesAfter(text, i) ==
    {c \in (i + 2)..(Len(text) - 1) : text[c] = "*" /\ text[c + 1] = "/"}

\* a /* starts at position i of the text
OpensAt(text, i) == i < Len(text) /\ text[i] = "/" /\ text[i + 1] = "*"

\* the characters that stay, scanning from position i to the right: at a /* that
\* has a */ after it the scan jumps behind the nearest one; any other character
\* stays
RECURSIVE KeptFrom(_, _)
KeptFrom(text, i) ==
    IF i > Len(text) THEN <<>>
    ELSE IF OpensAt(text, i) /\ ClosesAfter(text, i) # {}
         THEN KeptFrom(text, (CHOOSE c \in ClosesAfter(text, i) :
                                  \A d \in ClosesAfter(text, i) : c <= d) + 2)
         ELSE <<text[i]>> \o KeptFrom(text, i + 1)

\* C15: strip_block_comments removes, scanning left to right, every span from a
\* /* to the nearest */ after it (the delimiters and any line break inside the
\* span included) and leaves every other character as it is and in order; a /*
\* with no */ after it stays.  "A /* B\nC */ D" becomes "A  D".
C15_CommentsRemoved ==
    (pc = "done" /\ hist.call = "strip_block_comments") =>
        /\ result = KeptFrom(input, 1)
        /\ input = ScenarioText => result = <<"A", " ", " ", "D">>

\* a comment that holds a line break is removed and the /* after it, never
\* closed, stays
C15_Witness ==
    /\ pc = "done" /\ hist.call = "strip_block_comments"
    /\ input = <<"/", "*", "\n", "*", "/", "/", "*">>
    /\ result = <<"/", "*">>

-----------------------------------------------------------------------------
(* parse_measurement called on one MEASUREMENT block (specification
   SpecMeasurement) *)

\* the most lines after the positional prefix
MaxMeasLines == 3

\* the positional prefix: description, datatype, conversion method
MeasPrefix == <<<<"\"","d"," ","e","\"">>, <<"U","B","Y","T","E">>, <<"C","M">>>>

\* lines after the prefix: one number, two numbers (twice), a word, a number and a
\* word, three numbers, an address in lower case, an ECU address, a symbol link
MeasLines ==
    {<<"5">>, <<"1"," ","2">>, <<"0"," ","1",".","5">>, <<"x">>, <<"1"," ","x">>, <<"1"," ","2"," ","3">>,
     <<"a","d","d","r","e","s","s"," ","5">>,
     <<"E","C","U","_","A","D","D","R","E","S","S"," ","0","x","1","0">>,
     <<"S","Y","M","B","O","L","_","L","I","N","K"," ","s"," ","4">>}

\* the name on the begin line, or on the first content line
MeasBlocks(rest) ==
    { OneBlock(kw.MEASUREMENT, <<<<"M">>>>, MeasPrefix \o rest),
      OneBlock(kw.MEASUREMENT, <<>>, <<<<"M">>>> \o MeasPrefix \o rest) }

InitMeasurement ==
    /\ blocks \in UNION {MeasBlocks(rest) : rest \in BoundedSeqs(MeasLines, MaxMeasLines)}
    /\ stack = <<>>
    /\ hist = no_call
    /\ input = None
    /\ pc = "call"
    /\ result = None

CallParseMeasurement ==
    /\ pc = "call"
    /\ result' = parse_measurement(blocks, 1)
    /\ pc' = "done"
    /\ hist' = called("parse_measurement")
    /\ UNCHANGED <<blocks, stack, input>>

SpecMeasurement == InitMeasurement /\ [][CallParseMeasurement]_vars

\* the tokens of each non-blank line after the positional prefix (the name line,
\* when the begin line has no arguments, and three more lines)
RestTokens ==
    LET p == IF blocks[1].args = <<>> THEN 4 ELSE 3
    IN tokenize_lines(SubSeq(TheLines, p + 1, Len(TheLines))).toks

is_numeric_token(x) == is_int_token(x) \/ is_float_token(x)

\* the first token is one of the three keywords, letter for letter
names_keyword(t) == t[1] \in {kw.ECU_ADDRESS, kw.ADDRESS, kw.SYMBOL_LINK}
no_keyword(t) == ~names_keyword(t)

\* the first token is one of the three keywords, in any letter case
names_keyword_any_case(t) == upper(t[1]) \in {kw.ECU_ADDRESS, kw.ADDRESS, kw.SYMBOL_LINK}
no_keyword_any_case(t) == ~names_keyword_any_case(t)

\* a line of exactly two numeric tokens
is_limit_pair(t) == Len(t) = 2 /\ is_numeric_token(t[1]) /\ is_numeric_token(t[2])

\* what the lines append to params: nothing for a pair of limits, else every token
\* (the one token of a line of one numeric token included)
RECURSIVE ParamsOf(_)
ParamsOf(ts) ==
    IF ts = <<>> THEN <<>>
    ELSE (IF is_limit_pair(Head(ts)) THEN <<>> ELSE Head(ts)) \o ParamsOf(Tail(ts))

\* the limits the lines leave: those of the last pair of limits, or none
LimitsOf(ts) ==
    LET pairs == SelectSeq(ts, is_limit_pair)
    IN IF pairs = <<>> THEN <<None, None>>
       ELSE <<float_or_int(pairs[Len(pairs)][1]), float_or_int(pairs[Len(pairs)][2])>>

====
